---- MODULE Spec2Model ----
(***************************************************************************)
(* libView: attribute projection, structural-compatibility check and the   *)
(* cascading selector resolver of src/libView.py (class mainWindow).       *)
(*                                                                         *)
(* A Python str is modelled as a sequence of one-character strings, so     *)
(* that re.sub, str.split, re.split and str.strip act on characters.       *)
(* An OrderedDict is a sequence of [k |-> key, v |-> value] in insertion   *)
(* order: sequence equality is then OrderedDict equality (order matters).  *)
(***************************************************************************)
EXTENDS Integers, Sequences, FiniteSets, TLC

-----------------------------------------------------------------------------
(* Text *)

\* the sequence f as an explicit tuple.  A function expression is otherwise kept
\* as a rule that is evaluated again at every application, inside the
\* evaluation of whatever the rule refers to.
AsTuple(f) == f \o <<>>

NA == <<"N", "/", "A">>

EmptyText == <<>>

IsSpace(c) == c \in {" ", "\t", "\n"}

\* re.sub(<one of cs>, '', s)
RemoveChars(s, cs) == SelectSeq(s, LAMBDA c : c \notin cs)

\* re.sub('"', '', s)
DeQuote(s) == RemoveChars(s, {"\""})

\* the k-th smallest element of a finite set of integers
Nth(S, k) == CHOOSE i \in S : Cardinality({j \in S : j <= i}) = k

\* str.split(): the whitespace-separated tokens
Split(s) ==
  LET starts == {i \in 1..Len(s) : ~IsSpace(s[i]) /\ (i = 1 \/ IsSpace(s[i - 1]))}
      TokenEnd(i) == CHOOSE j \in i..Len(s) :
                       /\ \A k \in i..j : ~IsSpace(s[k])
                       /\ (j = Len(s) \/ IsSpace(s[j + 1]))
  IN AsTuple([k \in 1..Cardinality(starts) |->
                SubSeq(s, Nth(starts, k), TokenEnd(Nth(starts, k)))])

\* re.split('"\s*,', s): a separator is a double quote, any white space and a
\* comma; SepEnd(i) is where the match that starts at the quote i would end
SplitRows(s) ==
  LET SepEnd(i) == CHOOSE j \in (i + 1)..(Len(s) + 1) :
                     /\ \A k \in (i + 1)..(j - 1) : IsSpace(s[k])
                     /\ (j > Len(s) \/ ~IsSpace(s[j]))
      seps == {i \in 1..Len(s) :
                 s[i] = "\"" /\ SepEnd(i) <= Len(s) /\ s[SepEnd(i)] = ","}
      n == Cardinality(seps) + 1
  IN AsTuple([k \in 1..n |->
                SubSeq(s, IF k = 1 THEN 1 ELSE SepEnd(Nth(seps, k - 1)) + 1,
                          IF k = n THEN Len(s) ELSE Nth(seps, k) - 1)])

RECURSIVE StripLeft(_)
StripLeft(s) == IF s # <<>> /\ IsSpace(Head(s)) THEN StripLeft(Tail(s)) ELSE s

RECURSIVE StripRight(_)
StripRight(s) ==
  IF s # <<>> /\ IsSpace(s[Len(s)]) THEN StripRight(SubSeq(s, 1, Len(s) - 1)) ELSE s

\* str.strip()
Strip(s) == StripRight(StripLeft(s))

Digits == <<"0", "1", "2", "3", "4", "5", "6", "7", "8", "9">>

IsDigit(c) == \E d \in 1..10 : Digits[d] = c

DigitValue(c) == (CHOOSE d \in 1..10 : Digits[d] = c) - 1

RECURSIVE IntToText(_)
\* str(n) for n >= 0
IntToText(n) ==
  IF n < 10 THEN <<Digits[n + 1]>> ELSE Append(IntToText(n \div 10), Digits[(n % 10) + 1])

RECURSIVE DigitsToInt(_)
DigitsToInt(s) ==
  IF s = <<>> THEN 0 ELSE 10 * DigitsToInt(SubSeq(s, 1, Len(s) - 1)) + DigitValue(s[Len(s)])

\* int(s) raises ValueError unless s is an optionally signed, non-empty digit
\* string (surrounding whitespace allowed); only the unsigned form is used here.
IsIntText(s) ==
  LET AllDigits(t) == t # <<>> /\ \A i \in 1..Len(t) : IsDigit(t[i])
  IN AllDigits(Strip(s))

TextToInt(s) == DigitsToInt(Strip(s))

\* float(s) succeeds on [sign] digits [. digits] | [sign] . digits (exponents and
\* inf/nan are not produced by the inputs used here).
IsFloatText(s) ==
  LET Unsigned(t) == IF t # <<>> /\ t[1] \in {"+", "-"} THEN Tail(t) ELSE t
      Number(u) == /\ Cardinality({i \in 1..Len(u) : u[i] = "."}) <= 1
                   /\ \A i \in 1..Len(u) : IsDigit(u[i]) \/ u[i] = "."
                   /\ \E i \in 1..Len(u) : IsDigit(u[i])
  IN Number(Unsigned(Strip(s)))

RECURSIVE DropTrailingZeros(_)
DropTrailingZeros(s) ==
  IF s # <<>> /\ s[Len(s)] = "0" THEN DropTrailingZeros(SubSeq(s, 1, Len(s) - 1)) ELSE s

RECURSIVE DropLeadingZeros(_)
DropLeadingZeros(s) ==
  IF s # <<>> /\ Head(s) = "0" THEN DropLeadingZeros(Tail(s)) ELSE s

\* float(s) as the number it denotes: [neg, int, frac] with the integer part
\* without leading zeros and the fraction without trailing zeros, so that
\* "1", "1.0" and "01.00" denote the same value.
ToFloat(s) ==
  LET Unsigned(t) == IF t # <<>> /\ t[1] \in {"+", "-"} THEN Tail(t) ELSE t
      Dot(u) == IF \E i \in 1..Len(u) : u[i] = "."
                THEN CHOOSE i \in 1..Len(u) : u[i] = "."
                ELSE Len(u) + 1
      Signed(neg, ip, fp) == [neg |-> neg /\ (ip # <<>> \/ fp # <<>>), int |-> ip, frac |-> fp]
      Parts(neg, u, dot) == Signed(neg, DropLeadingZeros(SubSeq(u, 1, dot - 1)),
                                   DropTrailingZeros(SubSeq(u, dot + 1, Len(u))))
      Number(neg, u) == Parts(neg, u, Dot(u))
      Text(t) == Number(t # <<>> /\ t[1] = "-", Unsigned(t))
  IN Text(Strip(s))

-----------------------------------------------------------------------------
(* OrderedDict *)

\* Op(e) with e evaluated before Op is applied.  An operator argument is
\* otherwise evaluated at its first use, which nests the evaluations of the
\* iterations of a loop inside one another.
Apply(Op(_), e) == CHOOSE r \in {Op(v) : v \in {e}} : TRUE

Keys(od) == AsTuple([i \in 1..Len(od) |-> od[i].k])

HasKey(od, key) == \E i \in 1..Len(od) : od[i].k = key

\* the position of key in od
KeyIndex(od, key) == CHOOSE i \in 1..Len(od) : od[i].k = key

\* od[key]; the caller checks HasKey first (a missing key is a KeyError)
Get(od, key) == od[KeyIndex(od, key)].v

\* od[key] = val on a dictionary that puts a new key in front of the others
PutFirst(od, key, val) ==
  IF HasKey(od, key)
  THEN [od EXCEPT ![KeyIndex(od, key)].v = val]
  ELSE <<[k |-> key, v |-> val]>> \o od

\* od[key] = val
Put(od, key, val) ==
  IF HasKey(od, key)
  THEN [od EXCEPT ![KeyIndex(od, key)].v = val]
  ELSE Append(od, [k |-> key, v |-> val])

\* od.setdefault(key, val)
SetDefault(od, key, val) == IF HasKey(od, key) THEN od ELSE Append(od, [k |-> key, v |-> val])

RECURSIVE HasPath(_, _)
HasPath(od, path) ==
  \/ path = <<>>
  \/ /\ HasKey(od, Head(path))
     /\ HasPath(Get(od, Head(path)), Tail(path))

RECURSIVE GetPath(_, _)
\* od[p1][p2]...[pn]
GetPath(od, path) == IF path = <<>> THEN od ELSE GetPath(Get(od, Head(path)), Tail(path))

RECURSIVE SetPath(_, _, _)
\* od.setdefault(p1, {}).setdefault(p2, {}) ... [pn] = val
SetPath(od, path, val) ==
  IF Len(path) = 1
  THEN Put(od, path[1], val)
  ELSE IF HasKey(od, path[1])
  THEN [od EXCEPT ![KeyIndex(od, path[1])].v = SetPath(@, Tail(path), val)]
  ELSE Append(od, [k |-> path[1], v |-> SetPath(<<>>, Tail(path), val)])

RECURSIVE SetDefaultPath(_, _, _)
\* od.setdefault(p1, {}).setdefault(p2, {}) ... .setdefault(pn, val)
SetDefaultPath(od, path, val) ==
  IF Len(path) = 1
  THEN SetDefault(od, path[1], val)
  ELSE IF HasKey(od, path[1])
  THEN [od EXCEPT ![KeyIndex(od, path[1])].v = SetDefaultPath(@, Tail(path), val)]
  ELSE Append(od, [k |-> path[1], v |-> SetDefaultPath(<<>>, Tail(path), val)])

\* od.setdefault(p1, {}).setdefault(p2, {}) ... .setdefault(pn, {})
EnsurePath(od, path) == IF path = <<>> THEN od ELSE SetDefaultPath(od, path, <<>>)

RECURSIVE Flatten(_)
Flatten(ss) == IF ss = <<>> THEN <<>> ELSE Head(ss) \o Flatten(Tail(ss))

-----------------------------------------------------------------------------
(* Parsed library files *)

LibA ==
  [cellList |-> <<<<"A","3">>, <<"A","1">>, <<"A","2">>, <<"A","4">>, <<"A","5">>>>,
   unit |-> [leakage_power_unit |-> <<"\"","1","n","W","\"">>, time_unit |-> <<"\"","1","n","s","\"">>],
   area |-> <<[k |-> <<"A","1">>, v |-> <<"1">>], [k |-> <<"A","2">>, v |-> <<"2">>], [k |-> <<"A","3">>, v |-> <<"3">>], [k |-> <<"A","4">>, v |-> <<"4">>], [k |-> <<"A","5">>, v |-> <<"5">>]>>,
   leakage |-> <<[k |-> <<"A","1">>, v |-> <<[value |-> <<"\"","1","\"">>, when |-> <<"\"","!","I","1","\"">>, related_pg_pin |-> <<"\"","V","D","D","\"">>], [value |-> <<"\"","2","\"">>]>>],
     [k |-> <<"A","2">>, v |-> <<[value |-> <<"\"","2","\"">>, when |-> <<"\"","!","I","1","\"">>, related_pg_pin |-> <<"\"","V","D","D","\"">>], [value |-> <<"\"","3","\"">>]>>],
     [k |-> <<"A","3">>, v |-> <<[value |-> <<"\"","3","\"">>, when |-> <<"\"","!","I","1","\"">>, related_pg_pin |-> <<"\"","V","S","S","\"">>], [value |-> <<"\"","4","\"">>]>>],
     [k |-> <<"A","4">>, v |-> <<[value |-> <<"\"","4","\"">>, when |-> <<"\"","!","I","1","\"">>, related_pg_pin |-> <<"\"","V","D","D","\"">>], [value |-> <<"\"","5","\"">>]>>],
     [k |-> <<"A","5">>, v |-> <<[value |-> <<"\"","5","\"">>, when |-> <<"\"","!","I","1","\"">>, related_pg_pin |-> <<"\"","V","D","D","\"">>], [value |-> <<"\"","6","\"">>]>>]>>,
   pin |-> <<[k |-> <<"A","1">>, v |->
     <<[k |-> "pin", v |-> <<[k |-> <<"Z">>, v |-> [timing |-> <<[related_pin |-> <<"\"","I","1","\"">>, timing_sense |-> <<"\"","p","u","\"">>, table_type |-> <<[k |-> <<"c","e","l","l","_","r","i","s","e">>, v |-> [index_1 |-> <<"(","\"","1",","," ","2","\"",")">>, index_2 |-> <<"(","\"","1",","," ","2","\"",")">>, values |-> <<"(","\"","1",","," ","2","\"",","," ","\"","3",","," ","4","\"",")">>]]>>],
        [related_pin |-> <<"\"","I","2","\"">>, timing_sense |-> <<"\"","p","u","\"">>, table_type |-> <<[k |-> <<"c","e","l","l","_","r","i","s","e">>, v |-> [index_1 |-> <<"(","\"","1",","," ","2","\"",")">>, values |-> <<"(","\"","5",","," ","6","\"",")">>]]>>]>>, internal_power |-> <<[related_pin |-> <<"\"","I","1","\"">>, table_type |-> <<[k |-> <<"r","i","s","e","_","p","o","w","e","r">>, v |-> [index_1 |-> <<"(","\"","1","\"",")">>, values |-> <<"(","\"","8","\"",")">>]]>>]>>]], [k |-> <<"I","1">>, v |-> <<>>]>>]>>],
    [k |-> <<"A","2">>, v |->
     <<[k |-> "pin", v |-> <<[k |-> <<"Z">>, v |-> [timing |-> <<[related_pin |-> <<"\"","I","1","\"">>, timing_sense |-> <<"\"","p","u","\"">>, table_type |-> <<[k |-> <<"c","e","l","l","_","r","i","s","e">>, v |-> [index_1 |-> <<"(","\"","5",","," ","6","\"",")">>, index_2 |-> <<"(","\"","5",","," ","6","\"",")">>, values |-> <<"(","\"","5",","," ","6","\"",","," ","\"","7",","," ","8","\"",")">>]]>>],
        [related_pin |-> <<"\"","I","2","\"">>, timing_sense |-> <<"\"","p","u","\"">>, table_type |-> <<[k |-> <<"c","e","l","l","_","r","i","s","e">>, v |-> [index_1 |-> <<"(","\"","5",","," ","6","\"",")">>, values |-> <<"(","\"","9",","," ","1","0","\"",")">>]]>>]>>, internal_power |-> <<[related_pin |-> <<"\"","I","1","\"">>, table_type |-> <<[k |-> <<"r","i","s","e","_","p","o","w","e","r">>, v |-> [index_1 |-> <<"(","\"","5","\"",")">>, values |-> <<"(","\"","1","2","\"",")">>]]>>]>>]], [k |-> <<"I","1">>, v |-> <<>>]>>]>>],
    [k |-> <<"A","3">>, v |->
     <<[k |-> "pin", v |-> <<[k |-> <<"Z">>, v |-> [timing |-> <<[related_pin |-> <<"\"","I","2","\"">>, timing_sense |-> <<"\"","p","u","\"">>, table_type |-> <<[k |-> <<"c","e","l","l","_","r","i","s","e">>, v |-> [index_1 |-> <<"(","\"","1",","," ","2","\"",")">>, values |-> <<"(","\"","5",","," ","6","\"",")">>]]>>],
        [related_pin |-> <<"\"","I","1","\"">>, timing_sense |-> <<"\"","p","u","\"">>, table_type |-> <<[k |-> <<"c","e","l","l","_","r","i","s","e">>, v |-> [index_1 |-> <<"(","\"","1",","," ","2","\"",")">>, index_2 |-> <<"(","\"","1",","," ","2","\"",")">>, values |-> <<"(","\"","1",","," ","2","\"",","," ","\"","3",","," ","4","\"",")">>]]>>]>>, internal_power |-> <<[related_pin |-> <<"\"","I","1","\"">>, table_type |-> <<[k |-> <<"r","i","s","e","_","p","o","w","e","r">>, v |-> [index_1 |-> <<"(","\"","2","\"",")">>, values |-> <<"(","\"","9","\"",")">>]]>>]>>]], [k |-> <<"I","1">>, v |-> <<>>]>>]>>],
    [k |-> <<"A","4">>, v |->
     <<[k |-> "pin", v |-> <<[k |-> <<"Z">>, v |-> [timing |-> <<[related_pin |-> <<"\"","I","1","\"">>, timing_sense |-> <<"\"","p","u","\"">>, table_type |-> <<[k |-> <<"c","e","l","l","_","r","i","s","e">>, v |-> [index_1 |-> <<"(","\"","1",","," ","2","\"",")">>, index_2 |-> <<"(","\"","1",","," ","2","\"",")">>, values |-> <<"(","\"","1",","," ","2","\"",","," ","\"","3",","," ","4","\"",")">>]], [k |-> <<"c","e","l","l","_","f","a","l","l">>, v |-> [index_1 |-> <<"(","\"","1","\"",")">>, values |-> <<"(","\"","7","\"",")">>]]>>],
        [related_pin |-> <<"\"","I","2","\"">>, timing_sense |-> <<"\"","p","u","\"">>, table_type |-> <<[k |-> <<"c","e","l","l","_","r","i","s","e">>, v |-> [index_1 |-> <<"(","\"","1",","," ","2","\"",")">>, values |-> <<"(","\"","5",","," ","6","\"",")">>]]>>]>>, internal_power |-> <<[related_pin |-> <<"\"","I","1","\"">>, table_type |-> <<[k |-> <<"r","i","s","e","_","p","o","w","e","r">>, v |-> [index_1 |-> <<"(","\"","3","\"",")">>, values |-> <<"(","\"","1","0","\"",")">>]]>>]>>]], [k |-> <<"I","1">>, v |-> <<>>]>>]>>],
    [k |-> <<"A","5">>, v |->
     <<[k |-> "pin", v |-> <<[k |-> <<"Z">>, v |-> [timing |-> <<[related_pin |-> <<"\"","I","1","\"">>, timing_sense |-> <<"\"","p","u","\"">>, table_type |-> <<[k |-> <<"c","e","l","l","_","r","i","s","e">>, v |-> [index_1 |-> <<"(","\"","1",","," ","2","\"",")">>, index_2 |-> <<"(","\"","1",","," ","2","\"",")">>, values |-> <<"(","\"","1",","," ","2","\"",","," ","\"","3",","," ","4","\"",")">>]], [k |-> <<"o","c","v","_","s","i","g","m","a","_","r","i","s","e","_","c","o","n","s","t","r","a","i","n","t">>, v |-> [index_1 |-> <<"(","\"","1","\"",")">>, values |-> <<"(","\"","7","\"",")">>]]>>],
        [related_pin |-> <<"\"","I","2","\"">>, timing_sense |-> <<"\"","p","u","\"">>, table_type |-> <<[k |-> <<"c","e","l","l","_","r","i","s","e">>, v |-> [index_1 |-> <<"(","\"","1",","," ","2","\"",")">>, values |-> <<"(","\"","5",","," ","6","\"",")">>]]>>]>>, internal_power |-> <<[related_pin |-> <<"\"","I","1","\"">>, table_type |-> <<[k |-> <<"f","a","l","l","_","p","o","w","e","r">>, v |-> [index_1 |-> <<"(","\"","4","\"",")">>, values |-> <<"(","\"","1","1","\"",")">>]]>>]>>]], [k |-> <<"I","1">>, v |-> <<>>]>>]>>]>>]

LibAPath == <<"d","/","a",".","l","i","b">>

LibB ==
  [cellList |-> <<<<"T">>, <<"E">>, <<"B">>, <<"D">>, <<"F">>>>,
   unit |-> [leakage_power_unit |-> <<"\"","1","p","W","\"">>, time_unit |-> <<"\"","1","n","s","\"">>],
   area |-> <<[k |-> <<"T">>, v |-> <<"6">>], [k |-> <<"E">>, v |-> <<"7">>], [k |-> <<"B">>, v |-> <<"8">>], [k |-> <<"D">>, v |-> <<"9">>], [k |-> <<"F">>, v |-> <<"7">>]>>,
   leakage |-> <<[k |-> <<"T">>, v |-> <<>>],
     [k |-> <<"E">>, v |-> <<>>],
     [k |-> <<"B">>, v |-> <<[value |-> <<"\"","8","\"">>, when |-> <<"\"","!","I","1","\"">>, related_pg_pin |-> <<"\"","V","D","D","\"">>], [value |-> <<"\"","9","\"">>]>>],
     [k |-> <<"D">>, v |-> <<[value |-> <<"\"","9","\"">>, when |-> <<"\"","!","I","1","\"">>, related_pg_pin |-> <<"\"","V","D","D","\"">>], [value |-> <<"\"","1","0","\"">>]>>],
     [k |-> <<"F">>, v |-> <<>>]>>,
   pin |-> <<[k |-> <<"T">>, v |->
     <<[k |-> "pin", v |-> <<[k |-> <<"Z">>, v |-> [timing |-> <<[related_pin |-> <<"\"","I","1","\"">>, table_type |-> <<[k |-> <<"c","e","l","l","_","r","i","s","e">>, v |-> [index_1 |-> <<"(","\"","1","\"",")">>, values |-> <<"(","\"","9","\"",")">>]]>>]>>, internal_power |-> <<[related_pin |-> <<"\"","I","1","\"">>, table_type |-> <<[k |-> <<"r","i","s","e","_","p","o","w","e","r">>, v |-> [index_1 |-> <<"(","\"","6","\"",")">>, values |-> <<"(","\"","1","3","\"",")">>]]>>]>>]], [k |-> <<"Y">>, v |-> [timing |-> <<[related_pin |-> <<"\"","I","1","\"">>, table_type |-> <<[k |-> <<"r","e","t","a","i","n","i","n","g","_","r","i","s","e">>, v |-> [index_1 |-> <<"(","\"","1","\"",")">>, values |-> <<"(","\"","9","\"",")">>]]>>]>>]]>>]>>],
    [k |-> <<"E">>, v |->
     <<[k |-> "pin", v |-> <<[k |-> <<"I","1">>, v |-> <<>>]>>]>>],
    [k |-> <<"B">>, v |->
     <<[k |-> "bundle", v |-> <<[k |-> <<"B","B">>, v |-> [timing |-> <<[related_pin |-> <<"\"","C","K","\"">>, table_type |-> <<[k |-> <<"c","e","l","l","_","f","a","l","l">>, v |-> [index_1 |-> <<"(","\"","1","\"",")">>, values |-> <<"(","\"","2","\"",")">>]]>>]>>, pin |-> <<[k |-> <<"P","1">>, v |-> [timing |-> <<[related_pin |-> <<"\"","I","1","\"">>, table_type |-> <<[k |-> <<"c","e","l","l","_","r","i","s","e">>, v |-> [index_1 |-> <<"(","\"","1","\"",")">>, values |-> <<"(","\"","3","\"",")">>]]>>]>>, internal_power |-> <<[related_pin |-> <<"\"","I","1","\"">>, table_type |-> <<[k |-> <<"r","i","s","e","_","p","o","w","e","r">>, v |-> [index_1 |-> <<"(","\"","2","\"",")">>, values |-> <<"(","\"","9","\"",")">>]]>>]>>]], [k |-> <<"P","2">>, v |-> <<>>]>>]]>>],
      [k |-> "bus", v |-> <<[k |-> <<"B","U">>, v |-> [pin |-> <<[k |-> <<"Q","1">>, v |-> [timing |-> <<[related_pin |-> <<"\"","I","1","\"">>, table_type |-> <<[k |-> <<"c","e","l","l","_","r","i","s","e">>, v |-> [index_1 |-> <<"(","\"","1","\"",")">>, values |-> <<"(","\"","4","\"",")">>]]>>]>>]]>>]]>>],
      [k |-> "pin", v |-> <<[k |-> <<"Z">>, v |-> [timing |-> <<[related_pin |-> <<"\"","I","1","\"">>, table_type |-> <<[k |-> <<"c","e","l","l","_","r","i","s","e">>, v |-> [index_1 |-> <<"(","\"","1","\"",")">>, values |-> <<"(","\"","5","\"",")">>]]>>]>>, internal_power |-> <<[related_pin |-> <<"\"","I","1","\"">>, table_type |-> <<[k |-> <<"r","i","s","e","_","p","o","w","e","r">>, v |-> [index_1 |-> <<"(","\"","4","\"",")">>, values |-> <<"(","\"","1","1","\"",")">>]]>>]>>]]>>]>>],
    [k |-> <<"D">>, v |->
     <<[k |-> "pin", v |-> <<[k |-> <<"Z">>, v |-> [timing |-> <<[related_pin |-> <<"\"","I","1","\"">>, table_type |-> <<[k |-> <<"c","e","l","l","_","r","i","s","e">>, v |-> [index_1 |-> <<"(","\"","1",","," ","2","\"",")">>, index_2 |-> <<"(","\"","0",".","1",","," ","0",".","2","\"",")">>, values |-> <<"(","\"","1","0",","," ","2","0","\"",","," ","\"","3","0",","," ","4","0","\"",")">>]]>>],
        [related_pin |-> <<"\"","I","2","\"">>, table_type |-> <<[k |-> <<"c","e","l","l","_","r","i","s","e">>, v |-> [index_1 |-> <<"(","\"","1","\"",")">>, values |-> <<"(","\"","5","\"",")">>]]>>],
        [related_pin |-> <<"\"","I","2","\"">>, table_type |-> <<[k |-> <<"c","e","l","l","_","f","a","l","l">>, v |-> [index_1 |-> <<"(","\"","1","\"",")">>, values |-> <<"(","\"","6","\"",")">>]]>>]>>, internal_power |-> <<[related_pin |-> <<"\"","I","1","\"">>, table_type |-> <<[k |-> <<"r","i","s","e","_","p","o","w","e","r">>, v |-> [index_1 |-> <<"(","\"","5","\"",")">>, values |-> <<"(","\"","1","2","\"",")">>]]>>]>>]]>>]>>],
    [k |-> <<"F">>, v |->
     <<[k |-> "pin", v |-> <<[k |-> <<"Z">>, v |-> [timing |-> <<[related_pin |-> <<"\"","I","1","\"">>, table_type |-> <<[k |-> <<"c","e","l","l","_","r","i","s","e">>, v |-> [index_1 |-> <<"(","\"","1","\"",")">>, values |-> <<"(","\"","7","\"",")">>]]>>]>>, internal_power |-> <<[related_pin |-> <<"\"","I","1","\"">>, table_type |-> <<[k |-> <<"r","i","s","e","_","p","o","w","e","r">>, v |-> [index_1 |-> <<"(","\"","7","\"",")">>, values |-> <<"(","\"","1","4","\"",")">>]]>>]>>]]>>]>>]>>]

LibBPath == <<"b",".","l","i","b">>

TimingTableTypes ==
  {<<"c","e","l","l","_","r","i","s","e">>,
   <<"r","i","s","e","_","t","r","a","n","s","i","t","i","o","n">>,
   <<"c","e","l","l","_","f","a","l","l">>,
   <<"f","a","l","l","_","t","r","a","n","s","i","t","i","o","n">>,
   <<"r","i","s","e","_","c","o","n","s","t","r","a","i","n","t">>,
   <<"f","a","l","l","_","c","o","n","s","t","r","a","i","n","t">>,
   <<"o","c","v","_","s","i","g","m","a","_","r","i","s","e","_","c","o","n","t","r","a","i","n","t">>,
   <<"o","c","v","_","s","i","g","m","a","_","f","a","l","l","_","c","o","n","t","r","a","i","n","t">>,
   <<"o","c","v","_","s","i","g","m","a","_","r","i","s","e","_","t","r","a","n","s","i","t","i","o","n">>,
   <<"o","c","v","_","s","i","g","m","a","_","f","a","l","l","_","t","r","a","n","s","i","t","i","o","n">>,
   <<"o","c","v","_","s","i","g","m","a","_","c","e","l","l","_","r","i","s","e">>,
   <<"o","c","v","_","s","i","g","m","a","_","c","e","l","l","_","f","a","l","l">>}

InternalPowerTableTypes ==
  {<<"f","a","l","l","_","p","o","w","e","r">>,
   <<"r","i","s","e","_","p","o","w","e","r">>}

-----------------------------------------------------------------------------
(* Projection of one pin's arc list (getPinTimingInfo, getPinInternalPowerInfo). *)
(* The two functions are the same code up to the discriminator attributes and    *)
(* the recognised table types; fam is "timing" or "internal_power".              *)

Discriminators(fam) ==
  IF fam = "timing"
  THEN <<"related_pin", "related_pg_pin", "timing_sense", "timing_type", "when">>
  ELSE <<"related_pin", "related_pg_pin", "when">>

TableTypes(fam) == IF fam = "timing" THEN TimingTableTypes ELSE InternalPowerTableTypes

\* dic.get(f, ''): an absent attribute read as the empty text
GetOrEmpty(dic, f) == IF f \in DOMAIN dic THEN dic[f] ELSE <<>>

\* dic.get(f, 'N/A')
GetOrNA(dic, f) == IF f \in DOMAIN dic THEN dic[f] ELSE NA

\* the index_1 / index_2 attribute of a raw table as a list of number texts
ParseIndex(tableDic, f) ==
  IF f \in DOMAIN tableDic
  THEN Split(RemoveChars(tableDic[f], {"(", ")", "\"", ","}))
  ELSE <<>>

\* the values attribute of a raw table as a list of rows of number texts
ParseValues(tableDic) ==
  IF "values" \in DOMAIN tableDic
  THEN LET Rows(rows) ==
             AsTuple([r \in 1..Len(rows) |-> Split(RemoveChars(rows[r], {"\"", ","}))])
       IN Rows(SplitRows(RemoveChars(tableDic["values"], {"(", ")"})))
  ELSE <<>>

RECURSIVE HierPath(_, _, _)
\* ['related_pin'][v1]['related_pg_pin'][v2] ... down to the first n discriminators
HierPath(fam, vals, n) ==
  IF n = 0 THEN <<>>
  ELSE HierPath(fam, vals, n - 1) \o <<Discriminators(fam)[n], vals[n]>>

\* the values of the discriminator attributes of one raw arc
ArcValues(fam, arcDic) ==
  AsTuple([i \in 1..Len(Discriminators(fam)) |-> DeQuote(GetOrNA(arcDic, Discriminators(fam)[i]))])

RECURSIVE ArcTables(_, _, _, _)
\* the loop over the table types of one raw arc: acc.flat is tmpTimingDic['table_type'],
\* acc.hier is tmpPinTimingDic; range(n) is represented by n.
ArcTables(fam, tables, leafPath, acc) ==
  IF tables = <<>>
  THEN acc
  ELSE LET Added(tableType, index1, index2, values) ==
             [flat |-> Put(acc.flat, tableType,
                           [index_1 |-> index1, index_2 |-> index2, values |-> values]),
              hier |-> SetDefaultPath(
                         SetDefaultPath(EnsurePath(acc.hier, leafPath \o <<tableType>>),
                                        leafPath \o <<tableType, "index_1">>, Len(index1)),
                         leafPath \o <<tableType, "index_2">>, Len(index2))]
           OfTable(tableType, tableDic) ==
             Added(tableType, ParseIndex(tableDic, "index_1"), ParseIndex(tableDic, "index_2"),
                   ParseValues(tableDic))
       IN IF Head(tables).k \in TableTypes(fam)
          THEN Apply(LAMBDA a : ArcTables(fam, Tail(tables), leafPath, a),
                     OfTable(Head(tables).k, Head(tables).v))
          ELSE ArcTables(fam, Tail(tables), leafPath, acc)

RECURSIVE PinInfoFrom(_, _, _)
\* the loop over the raw arcs of one pin: acc.list is tmpTimingDicList, acc.dic is
\* tmpPinTimingDic
PinInfoFrom(fam, arcs, acc) ==
  IF arcs = <<>>
  THEN acc
  ELSE LET Added(vals, t) ==
             [list |-> Append(acc.list,
                              AsTuple([i \in 1..Len(vals) |->
                                         [k |-> Discriminators(fam)[i], v |-> vals[i]]])
                                \o <<[k |-> "table_type", v |-> t.flat]>>),
              dic |-> t.hier]
           OfLeaf(arcDic, vals, leafPath) ==
             Added(vals, ArcTables(fam, arcDic["table_type"], leafPath,
                                   [flat |-> <<>>, hier |-> EnsurePath(acc.dic, leafPath)]))
           OfArc(arcDic, vals) ==
             OfLeaf(arcDic, vals, HierPath(fam, vals, Len(vals)) \o <<"table_type">>)
       IN Apply(LAMBDA a : PinInfoFrom(fam, Tail(arcs), a),
                OfArc(Head(arcs), ArcValues(fam, Head(arcs))))

\* getPinTimingInfo / getPinInternalPowerInfo: (tmpTimingDicList, tmpPinTimingDic)
getPinInfo(fam, arcs) == PinInfoFrom(fam, arcs, [list |-> <<>>, dic |-> <<>>])

getPinTimingInfo(pinTimingDicList) == getPinInfo("timing", pinTimingDicList)

getPinInternalPowerInfo(pinInternalPowerDicList) ==
  getPinInfo("internal_power", pinInternalPowerDicList)

-----------------------------------------------------------------------------
(* Projection of one cell (getTimingInfo, getInternalPowerInfo). *)

\* the pins of one bundle or bus group with the arcs declared on the group in
\* front of the arcs of the pin
GroupFirstPins(fam, scope, groupName, groupDic) ==
  LET groupList == IF fam \in DOMAIN groupDic THEN groupDic[fam] ELSE <<>>
      pins == IF "pin" \in DOMAIN groupDic THEN groupDic["pin"] ELSE <<>>
      kept == SelectSeq(pins, LAMBDA p : fam \in DOMAIN p.v \/ Len(groupList) > 0)
  IN AsTuple([i \in 1..Len(kept) |->
        [path |-> <<scope, groupName, "pin", kept[i].k>>,
         arcs |-> groupList \o (IF fam \in DOMAIN kept[i].v THEN kept[i].v[fam] ELSE <<>>)]])

\* the pins of one bundle or bus group that are projected, with their arc lists
\* (own arcs first, then the arcs declared on the group)
GroupPins(fam, scope, groupName, groupDic) ==
  LET groupList == IF fam \in DOMAIN groupDic THEN groupDic[fam] ELSE <<>>
      pins == IF "pin" \in DOMAIN groupDic THEN groupDic["pin"] ELSE <<>>
      kept == SelectSeq(pins, LAMBDA p : fam \in DOMAIN p.v \/ Len(groupList) > 0)
  IN AsTuple([i \in 1..Len(kept) |->
        [path |-> <<scope, groupName, "pin", kept[i].k>>,
         arcs |-> (IF fam \in DOMAIN kept[i].v THEN kept[i].v[fam] ELSE <<>>) \o groupList]])

\* the pins of one top-level key of libPinDic['cell'][cellName], in loop order
ScopePins(fam, scopeEntry) ==
  IF scopeEntry.k \in {"bundle", "bus"}
  THEN Flatten(AsTuple([g \in 1..Len(scopeEntry.v) |->
                  GroupPins(fam, scopeEntry.k, scopeEntry.v[g].k, scopeEntry.v[g].v)]))
  ELSE IF scopeEntry.k = "pin"
  THEN LET kept == SelectSeq(scopeEntry.v, LAMBDA p : fam \in DOMAIN p.v)
       IN AsTuple([i \in 1..Len(kept) |-> [path |-> <<"pin", kept[i].k>>, arcs |-> kept[i].v[fam]]])
  ELSE <<>>

\* every projected pin of the cell, in the order the loops visit them
CellPins(fam, cellPinDic) ==
  Flatten(AsTuple([s \in 1..Len(cellPinDic) |-> ScopePins(fam, cellPinDic[s])]))

RECURSIVE FamilyInfoFrom(_, _, _)
\* acc.spec is specifiedLibDic[lib][cell], acc.tab is <family>TabDic[lib][cell]
FamilyInfoFrom(fam, pins, acc) ==
  IF pins = <<>>
  THEN acc
  ELSE LET Added(p, info, s1, t1) ==
             [spec |-> IF info.list # <<>>
                       THEN SetDefaultPath(s1, p.path \o <<fam>>, info.list)
                       ELSE s1,
              tab |-> IF info.dic # <<>>
                      THEN SetDefaultPath(t1, p.path \o <<fam>>, info.dic)
                      ELSE t1]
           OfPin(p) == Added(p, getPinInfo(fam, p.arcs), EnsurePath(acc.spec, p.path),
                             EnsurePath(acc.tab, p.path))
       IN Apply(LAMBDA a : FamilyInfoFrom(fam, Tail(pins), a), OfPin(Head(pins)))

\* getTimingInfo / getInternalPowerInfo for one cell
getFamilyInfo(fam, cellPinDic, specCellDic) ==
  Apply(LAMBDA a : FamilyInfoFrom(fam, CellPins(fam, cellPinDic), a),
        [spec |-> specCellDic, tab |-> <<>>])

getTimingInfo(cellPinDic, specCellDic) == getFamilyInfo("timing", cellPinDic, specCellDic)

getInternalPowerInfo(cellPinDic, specCellDic) ==
  getFamilyInfo("internal_power", cellPinDic, specCellDic)

\* getCellAreaInfo
getCellAreaInfo(cellName, libCellAreaDic, specCellDic) ==
  Put(specCellDic, "area", Get(libCellAreaDic, cellName))

RECURSIVE LeakageIndexed(_, _, _)
\* the loop over the raw leakage entries of one cell with the index filled
\* whatever the number of selected cells
LeakageIndexed(entries, count, acc) ==
  IF entries = <<>>
  THEN acc
  ELSE LET Listed(value, when, pg, path, t1) ==
             [list |-> Append(acc.list,
                              [value |-> value, when |-> when, related_pg_pin |-> pg]),
              tab |-> SetPath(t1, path, Append(GetPath(t1, path), pg))]
           Added(value, when, pg, path) ==
             Listed(value, when, pg, path,
                    IF HasPath(acc.tab, path) THEN acc.tab ELSE SetPath(acc.tab, path, <<>>))
           OfEntry(e, when) ==
             Added(DeQuote(GetOrNA(e, "value")), when, DeQuote(GetOrNA(e, "related_pg_pin")),
                   <<"when", when, "related_pg_pin">>)
       IN Apply(LAMBDA a : LeakageIndexed(Tail(entries), count, a),
                OfEntry(Head(entries), DeQuote(GetOrNA(Head(entries), "when"))))

RECURSIVE LeakageFrom(_, _, _)
\* the loop over the raw leakage entries of one cell: acc.list is the flat list,
\* acc.tab the index, filled when two or more cells are selected
LeakageFrom(entries, count, acc) ==
  IF entries = <<>>
  THEN acc
  ELSE LET Listed(value, when, pg, path, t1) ==
             [list |-> Append(acc.list,
                              [value |-> value, when |-> when, related_pg_pin |-> pg]),
              tab |-> IF count >= 2
                      THEN SetPath(t1, path, Append(GetPath(t1, path), pg))
                      ELSE acc.tab]
           Added(value, when, pg, path) ==
             Listed(value, when, pg, path,
                    IF HasPath(acc.tab, path) THEN acc.tab ELSE SetPath(acc.tab, path, <<>>))
           OfEntry(e, when) ==
             Added(DeQuote(GetOrNA(e, "value")), when, DeQuote(GetOrNA(e, "related_pg_pin")),
                   <<"when", when, "related_pg_pin">>)
       IN Apply(LAMBDA a : LeakageFrom(Tail(entries), count, a),
                OfEntry(Head(entries), DeQuote(GetOrNA(Head(entries), "when"))))

\* getCellLeakagePowerInfo: list is specifiedLibDic[lib][cell]['leakage_power'],
\* tab is leakagePowerTabDic[lib][cell]['leakage_power']
getCellLeakagePowerInfo(cellName, libCellLeakagePowerDic, count) ==
  LeakageFrom(Get(libCellLeakagePowerDic, cellName), count, [list |-> <<>>, tab |-> <<>>])

-----------------------------------------------------------------------------
(* The liberty parser (libertyParser.libertyParser): the files the user can load *)

LibraryFiles == {LibAPath, LibBPath}

\* Further library files, for the load sequences: a second file named a.lib in
\* another directory, with other cells and other units; a library without
\* leakage_power_unit; a library without time_unit.
LibEPath == <<"e", "/", "a", ".", "l", "i", "b">>

LibE ==
  [cellList |-> <<<<"C">>>>,
   unit |-> [leakage_power_unit |-> <<"\"", "1", "u", "W", "\"">>,
             time_unit |-> <<"\"", "1", "p", "s", "\"">>],
   area |-> <<[k |-> <<"C">>, v |-> <<"1">>]>>,
   leakage |-> <<[k |-> <<"C">>, v |-> <<>>]>>,
   pin |-> <<[k |-> <<"C">>, v |-> <<>>]>>]

LibNPath == <<"n", ".", "l", "i", "b">>

LibN ==
  [cellList |-> <<<<"N", "2">>, <<"N", "1">>>>,
   unit |-> [time_unit |-> <<"\"", "1", "0", "p", "s", "\"">>],
   area |-> <<[k |-> <<"N", "1">>, v |-> <<"1">>], [k |-> <<"N", "2">>, v |-> <<"2">>]>>,
   leakage |-> <<[k |-> <<"N", "1">>, v |-> <<>>], [k |-> <<"N", "2">>, v |-> <<>>]>>,
   pin |-> <<[k |-> <<"N", "1">>, v |-> <<>>], [k |-> <<"N", "2">>, v |-> <<>>]>>]

LibMPath == <<"m", ".", "l", "i", "b">>

LibM ==
  [cellList |-> <<<<"M">>>>,
   unit |-> [leakage_power_unit |-> <<"\"", "1", "m", "W", "\"">>],
   area |-> <<[k |-> <<"M">>, v |-> <<"1">>]>>,
   leakage |-> <<[k |-> <<"M">>, v |-> <<>>]>>,
   pin |-> <<[k |-> <<"M">>, v |-> <<>>]>>]

\* the parsed content of a library file
Parser(libraryFile) ==
  IF libraryFile = LibAPath THEN LibA
  ELSE IF libraryFile = LibEPath THEN LibE
  ELSE IF libraryFile = LibNPath THEN LibN
  ELSE IF libraryFile = LibMPath THEN LibM
  ELSE LibB

RECURSIVE LastSlash(_, _)
LastSlash(s, i) == IF i = 0 \/ s[i] = "/" THEN i ELSE LastSlash(s, i - 1)

\* the path itself, directories included
WholePath(path) == path

\* os.path.basename
Basename(path) == SubSeq(path, LastSlash(path, Len(path)) + 1, Len(path))

-----------------------------------------------------------------------------
(* sortCellWithSize *)

\* the printable ASCII characters (without the back quote) in code-point order
CharOrder ==
  <<" ", "!", "\"", "#", "$", "%", "&", "'", "(", ")", "*", "+", ",", "-", ".", "/",
    "0", "1", "2", "3", "4", "5", "6", "7", "8", "9", ":", ";", "<", "=", ">", "?",
    "@", "A", "B", "C", "D", "E", "F", "G", "H", "I", "J", "K", "L", "M", "N", "O",
    "P", "Q", "R", "S", "T", "U", "V", "W", "X", "Y", "Z", "[", "\\", "]", "^", "_",
    "a", "b", "c", "d", "e", "f", "g", "h", "i", "j", "k", "l", "m", "n", "o",
    "p", "q", "r", "s", "t", "u", "v", "w", "x", "y", "z", "{", "|", "}", "~">>

Ord(c) == CHOOSE i \in 1..Len(CharOrder) : CharOrder[i] = c

RECURSIVE TextLess(_, _)
\* a < b for Python strings
TextLess(a, b) ==
  IF b = <<>> THEN FALSE
  ELSE IF a = <<>> THEN TRUE
  ELSE IF Head(a) = Head(b) THEN TextLess(Tail(a), Tail(b))
  ELSE Ord(Head(a)) < Ord(Head(b))

RECURSIVE DigitRunEnd(_, _)
\* the last index of the run of digits starting at i (i - 1 if there is none)
DigitRunEnd(s, i) == IF i <= Len(s) /\ IsDigit(s[i]) THEN DigitRunEnd(s, i + 1) ELSE i - 1

\* seriesCellCompile: a head, 'D', digits, then 'BWP' and a tail; the positions
\* p of a 'D' at which the pattern can match
SeriesSplits(s) ==
  LET Bwp(p, e) == /\ e >= p + 1
                   /\ e + 3 <= Len(s)
                   /\ SubSeq(s, e + 1, e + 3) = <<"B", "W", "P">>
  IN {p \in 2..Len(s) : s[p] = "D" /\ Bwp(p, DigitRunEnd(s, p + 1))}

\* seriesCellCompile.match(cellName)
SeriesMatches(s) == SeriesSplits(s) # {}

\* the lazy (.+?) takes the leftmost split
SeriesSplit(s) ==
  LET Least(S) == CHOOSE p \in S : \A q \in S : p <= q
  IN Least(SeriesSplits(s))

\* group(1) + group(3)
SeriesKey(s) ==
  LET Key(p) == SubSeq(s, 1, p - 1) \o SubSeq(s, DigitRunEnd(s, p + 1) + 1, Len(s))
  IN Key(SeriesSplit(s))

\* int(group(2))
SeriesSize(s) ==
  LET Size(p) == DigitsToInt(SubSeq(s, p + 1, DigitRunEnd(s, p + 1)))
  IN Size(SeriesSplit(s))

Zzz == <<"z", "z", "z">>

\* the order of list.sort(): by text, or by key=int(group(2)) for a series
SortLess(a, b, bySize) == IF bySize THEN SeriesSize(a) < SeriesSize(b) ELSE TextLess(a, b)

RECURSIVE InsertBefore(_, _, _)
\* insert x in front of the elements that are not smaller (a sort that is not
\* stable)
InsertBefore(sorted, x, bySize) ==
  IF sorted = <<>> THEN <<x>>
  ELSE IF ~SortLess(Head(sorted), x, bySize) THEN <<x>> \o sorted
  ELSE <<Head(sorted)>> \o InsertBefore(Tail(sorted), x, bySize)

RECURSIVE InsertSorted(_, _, _)
\* insert x after the elements that are not greater (list.sort is stable)
InsertSorted(sorted, x, bySize) ==
  IF sorted = <<>> THEN <<x>>
  ELSE IF SortLess(x, Head(sorted), bySize) THEN <<x>> \o sorted
  ELSE <<Head(sorted)>> \o InsertSorted(Tail(sorted), x, bySize)

RECURSIVE SortBy(_, _)
SortBy(list, bySize) ==
  IF list = <<>> THEN <<>>
  ELSE InsertSorted(SortBy(SubSeq(list, 1, Len(list) - 1), bySize), list[Len(list)], bySize)

RECURSIVE GroupSeries(_, _)
\* the first loop: seriesCellDic after grouping the cells
GroupSeries(cells, dic) ==
  IF cells = <<>> THEN dic
  ELSE LET Grouped(c, key, d1) == Put(d1, key, Append(Get(d1, key), c))
           OfSeries(c, key) == Grouped(c, key, SetDefault(dic, key, <<>>))
       IN GroupSeries(Tail(cells),
                      OfSeries(Head(cells),
                               IF SeriesMatches(Head(cells)) THEN SeriesKey(Head(cells))
                               ELSE Zzz))

\* the second loop without its last statement: a series of one cell is taken
\* out of the dictionary
DropSingles(keys, dic) == SelectSeq(dic, LAMBDA e : e.k = Zzz \/ Len(e.v) # 1)

RECURSIVE MoveSingles(_, _)
\* the second loop: a series of one cell is moved to the end of 'zzz'
MoveSingles(keys, dic) ==
  IF keys = <<>> THEN dic
  ELSE LET key == Head(keys)
       IN IF key # Zzz /\ Len(Get(dic, key)) = 1
          THEN MoveSingles(Tail(keys),
                 Put(SelectSeq(dic, LAMBDA e : e.k # key), Zzz,
                     Append(Get(dic, Zzz), Get(dic, key)[1])))
          ELSE MoveSingles(Tail(keys), dic)

sortCellWithSize(origCellList) ==
  LET Listed(seriesCellDic, seriesCellList) ==
        Flatten(AsTuple([i \in 1..Len(seriesCellList) |->
                   SortBy(Get(seriesCellDic, seriesCellList[i]), seriesCellList[i] # Zzz)]))
      Sorted(seriesCellDic) == Listed(seriesCellDic, SortBy(Keys(seriesCellDic), FALSE))
      Moved(grouped) == Sorted(MoveSingles(Keys(grouped), grouped))
  IN Moved(GroupSeries(origCellList, <<[k |-> Zzz, v |-> <<>>]>>))

-----------------------------------------------------------------------------
(* Widgets *)

\* a combo box that clear() left with one item
UnclearedCombo == [items |-> <<<<>>>>, cur |-> 1]

\* QComboBox: the item texts and the current index (0 when there is no current item);
\* this is the combo box after clear()
EmptyCombo == [items |-> <<>>, cur |-> 0]

currentText(combo) == IF combo.cur = 0 THEN <<>> ELSE combo.items[combo.cur]

\* addItems: the first item added to an empty combo box becomes the current one
addItems(combo, texts) ==
  [items |-> combo.items \o texts,
   cur |-> IF combo.cur = 0 /\ texts # <<>> THEN 1 ELSE combo.cur]

\* setCurrentText on a non-editable combo box: select the first item with that
\* text, no change when there is none
setCurrentText(combo, text) ==
  IF \E i \in 1..Len(combo.items) : combo.items[i] = text
  THEN [combo EXCEPT !.cur = CHOOSE i \in 1..Len(combo.items) :
                                /\ combo.items[i] = text
                                /\ \A j \in 1..(i - 1) : combo.items[j] # text]
  ELSE combo

\* a table cell without QTableWidgetItem
NoItem == <<"">>

Min(a, b) == IF a < b THEN a ELSE b

\* QTableWidget: item[r][c] for r in 1..rowCount, c in 1..columnCount
EmptyTable(columns, labels) ==
  [rowCount |-> 0, columnCount |-> columns, hHeader |-> labels, vHeader |-> <<>>, item |-> <<>>]

setRowCount(t, n) ==
  [t EXCEPT !.rowCount = n,
            !.vHeader = SubSeq(t.vHeader, 1, Min(Len(t.vHeader), n)),
            !.item = AsTuple([r \in 1..n |-> IF r <= t.rowCount THEN t.item[r]
                                     ELSE AsTuple([c \in 1..t.columnCount |-> NoItem])])]

setColumnCount(t, n) ==
  [t EXCEPT !.columnCount = n,
            !.hHeader = SubSeq(t.hHeader, 1, Min(Len(t.hHeader), n)),
            !.item = AsTuple([r \in 1..t.rowCount |->
                        AsTuple([c \in 1..n |-> IF c <= t.columnCount THEN t.item[r][c] ELSE NoItem])])]

setHorizontalHeaderLabels(t, labels) ==
  [t EXCEPT !.hHeader = SubSeq(labels, 1, Min(Len(labels), t.columnCount))]

setVerticalHeaderLabels(t, labels) ==
  [t EXCEPT !.vHeader = SubSeq(labels, 1, Min(Len(labels), t.rowCount))]

\* setItem(row, column, QTableWidgetItem(text)) with 0-based row and column;
\* Qt ignores an item outside the table
setItem(t, row, column, text) ==
  IF row < t.rowCount /\ column < t.columnCount
  THEN [t EXCEPT !.item[row + 1][column + 1] = text]
  ELSE t

\* an attribute that has not been assigned yet
Undefined == <<"undefined">>

NoFigure ==
  [XList |-> Undefined, YList |-> Undefined,
   XArray |-> Undefined, YArray |-> Undefined, ZArray |-> Undefined]

\* 'cell_' + str(row + 1)
CellLabel(row) == <<"c", "e", "l", "l", "_">> \o IntToText(row + 1)

AllFloat(texts) == \A i \in 1..Len(texts) : IsFloatText(texts[i])

Floats(texts) == AsTuple([i \in 1..Len(texts) |-> ToFloat(texts[i])])

\* numpy.array(rows, dtype='float64') succeeds on rows of equal length of number texts
IsArray(rows) ==
  /\ \A i \in 1..Len(rows) : AllFloat(rows[i])
  /\ \A i, j \in 1..Len(rows) : Len(rows[i]) = Len(rows[j])

Array(rows) == AsTuple([i \in 1..Len(rows) |-> Floats(rows[i])])

\* the handler stops at an exception: w.raised names it
Raise(w, exception) == [w EXCEPT !.raised = exception]

RECURSIVE Ascending(_)
\* the texts of S in ascending order
Ascending(S) ==
  IF S = {} THEN <<>>
  ELSE LET m == CHOOSE x \in S : \A y \in S \ {x} : TextLess(x, y)
       IN <<m>> \o Ascending(S \ {m})

Reverse(s) == AsTuple([i \in 1..Len(s) |-> s[Len(s) + 1 - i]])

\* the orders in which a set of str is enumerated.  The order depends on the
\* hash seed of the process and not on the call; two seeds are modelled.
HashOrders == {"ascending", "descending"}

\* list(set(keys)) in a process whose hash seed gives the order
SetOrder(order, keys) ==
  LET sorted == Ascending({keys[i] : i \in 1..Len(keys)})
  IN IF order = "ascending" THEN sorted ELSE Reverse(sorted)

\* ' '.join(texts)
RECURSIVE Join(_)
Join(texts) ==
  IF texts = <<>> THEN <<>>
  ELSE IF Len(texts) = 1 THEN texts[1]
  ELSE texts[1] \o <<" ">> \o Join(Tail(texts))

-----------------------------------------------------------------------------
(* The selector cascade of the timing tab and of the internal power tab.  The   *)
(* two are the same code up to the discriminator stages; fam is "timing" or     *)
(* "internal_power".  d holds the data a handler reads: d.spec is               *)
(* specifiedLibDic, d.count is specifiedCellCount, d.tab[fam] is <fam>TabDic,   *)
(* d.multi[fam] is <fam>TabMultiEnable.  w holds the widgets a handler writes.  *)
(* A handler yields the set of widget states it can end in.                     *)

\* the tabs with combo boxes and a multi-enable flag
ComboTabs == {"leakage_power", "timing", "internal_power"}

DiscStages(fam) ==
  IF fam = "timing"
  THEN <<"RelatedPin", "RelatedPgPin", "TimingSense", "TimingType", "When">>
  ELSE <<"RelatedPin", "RelatedPgPin", "When">>

\* <combo>.currentText().strip()
Sel(w, fam, stage) == Strip(currentText(w.combo[fam][stage]))

\* the current discriminator choices
SelValues(w, fam) == AsTuple([i \in 1..Len(DiscStages(fam)) |-> Sel(w, fam, DiscStages(fam)[i])])

TabEnabled(d, fam) == d.multi[fam] \/ d.count = 1

\* the cells of a lib -> cell -> value dictionary in iteration order
CellSeq(dic) ==
  Flatten(AsTuple([l \in 1..Len(dic) |->
             AsTuple([c \in 1..Len(dic[l].v) |->
                [lib |-> dic[l].k, cell |-> dic[l].v[c].k, v |-> dic[l].v[c].v]])]))

\* [...]['bundle'][bundle]['pin'][pin], [...]['bus'][bus]['pin'][pin] or [...]['pin'][pin]
PinPath(w, fam) ==
  IF Sel(w, fam, "Bundle") # <<>>
  THEN <<"bundle", Sel(w, fam, "Bundle"), "pin", Sel(w, fam, "Pin")>>
  ELSE IF Sel(w, fam, "Bus") # <<>>
  THEN <<"bus", Sel(w, fam, "Bus"), "pin", Sel(w, fam, "Pin")>>
  ELSE <<"pin", Sel(w, fam, "Pin")>>

\* an arc of the flat record whose discriminators equal the current choices
ArcMatches(w, fam, arc) ==
  \A i \in 1..Len(DiscStages(fam)) : SelValues(w, fam)[i] = Get(arc, Discriminators(fam)[i])

-----------------------------------------------------------------------------
(* updateTimingTabTable / updateInternalPowerTabTable *)

RECURSIVE AppendColumn(_, _, _)
\* for valueList in valuesList: YList.append(float(valueList[column]))
AppendColumn(rows, column, acc) ==
  IF rows = <<>> \/ acc.raised # ""
  THEN acc
  ELSE IF column >= Len(Head(rows))
  THEN [acc EXCEPT !.raised = "IndexError"]
  ELSE IF ~IsFloatText(Head(rows)[column + 1])
  THEN [acc EXCEPT !.raised = "ValueError"]
  ELSE AppendColumn(Tail(rows), column,
                    [acc EXCEPT !.YList = Append(@, ToFloat(Head(rows)[column + 1]))])

\* one selected cell: the figure data of a matching arc.  a holds index1List,
\* index2List, valuesList, the figure attributes (fig) and the exception raised.
SingleFigure(a, index1, index2) ==
  IF index1 # <<>> /\ index2 = <<>>
  THEN IF ~AllFloat(a.index2List)
       THEN [a EXCEPT !.raised = "ValueError"]
       ELSE IF TextToInt(index1) >= Len(a.valuesList)
       THEN [a EXCEPT !.fig.XList = Floats(a.index2List), !.raised = "IndexError"]
       ELSE IF ~AllFloat(a.valuesList[TextToInt(index1) + 1])
       THEN [a EXCEPT !.fig.XList = Floats(a.index2List), !.raised = "ValueError"]
       ELSE [a EXCEPT !.fig.XList = Floats(a.index2List),
                      !.fig.YList = Floats(a.valuesList[TextToInt(index1) + 1])]
  ELSE IF index1 = <<>> /\ index2 # <<>>
  THEN LET Column(col) == [a EXCEPT !.fig.XList = Floats(a.index1List),
                                    !.fig.YList = col.YList,
                                    !.raised = col.raised]
       IN IF ~AllFloat(a.index1List)
          THEN [a EXCEPT !.raised = "ValueError"]
          ELSE Column(AppendColumn(a.valuesList, TextToInt(index2),
                                   [YList |-> a.fig.YList, raised |-> ""]))
  ELSE IF index1 = <<>> /\ index2 = <<>>
  THEN LET Surface(xList, yList) ==
             IF ~IsArray(xList)
             THEN [a EXCEPT !.raised = "ValueError"]
             ELSE IF ~IsArray(yList)
             THEN [a EXCEPT !.fig.XArray = Array(xList), !.raised = "ValueError"]
             ELSE IF ~IsArray(a.valuesList)
             THEN [a EXCEPT !.fig.XArray = Array(xList), !.fig.YArray = Array(yList),
                            !.raised = "ValueError"]
             ELSE [a EXCEPT !.fig.XArray = Array(xList), !.fig.YArray = Array(yList),
                            !.fig.ZArray = Array(a.valuesList)]
       IN Surface(AsTuple([i \in 1..Len(a.index1List) |->
                     AsTuple([j \in 1..Len(a.index2List) |-> a.index1List[i]])]),
                  AsTuple([i \in 1..Len(a.index2List) |-> a.index2List]))
  ELSE a

RECURSIVE SingleArcs(_, _, _, _)
\* for pinTimingDic in pinTimingDicList: ... (one selected cell)
SingleArcs(w, fam, arcs, a) ==
  IF arcs = <<>> \/ a.raised # ""
  THEN a
  ELSE IF ~ArcMatches(w, fam, Head(arcs))
  THEN SingleArcs(w, fam, Tail(arcs), a)
  ELSE IF ~HasKey(Get(Head(arcs), "table_type"), Sel(w, fam, "TableType"))
  THEN [a EXCEPT !.raised = "KeyError"]
  ELSE LET Lists(t) == [a EXCEPT !.index1List = t.index_1,
                                  !.index2List = t.index_2,
                                  !.valuesList = t.values]
       IN SingleArcs(w, fam, Tail(arcs),
            SingleFigure(Lists(Get(Get(Head(arcs), "table_type"), Sel(w, fam, "TableType"))),
                         Sel(w, fam, "Index1"), Sel(w, fam, "Index2")))

\* setItem(i, j, QTableWidgetItem(valuesList[i][j])) for every i, j
FillItems(t, valuesList) ==
  [t EXCEPT !.item = AsTuple([r \in 1..t.rowCount |->
                        AsTuple([c \in 1..t.columnCount |->
                           IF r <= Len(valuesList) /\ c <= Len(valuesList[r])
                           THEN valuesList[r][c]
                           ELSE t.item[r][c]])])]

\* the branch specifiedCellCount == 1
updateTabTableSingle(d, w, fam) ==
  LET Resized(t0, a) ==
        IF Len(a.index2List) > 0
        THEN setHorizontalHeaderLabels(
               setColumnCount(
                 setVerticalHeaderLabels(setRowCount(t0, Len(a.index1List)), a.index1List),
                 Len(a.index2List)),
               a.index2List)
        ELSE setHorizontalHeaderLabels(
               setColumnCount(setRowCount(t0, 1), Len(a.index1List)), a.index1List)
      Shown(a) ==
        IF a.raised # ""
        THEN Raise([w EXCEPT !.figure[fam] = a.fig], a.raised)
        ELSE IF Len(a.index1List) > 0
        THEN [w EXCEPT !.figure[fam] = a.fig,
                       !.table[fam] = FillItems(Resized(w.table[fam], a), a.valuesList)]
        ELSE [w EXCEPT !.figure[fam] = a.fig]
      OfPin(pinDic) ==
        Shown(SingleArcs(w, fam, IF HasKey(pinDic, fam) THEN Get(pinDic, fam) ELSE <<>>,
                         [index1List |-> <<>>, index2List |-> <<>>, valuesList |-> <<>>,
                          fig |-> w.figure[fam], raised |-> ""]))
      OfCell(cellDic, path) ==
        IF ~HasPath(cellDic, path) THEN Raise(w, "KeyError") ELSE OfPin(GetPath(cellDic, path))
      OfLibrary(libDicOfCells) ==
        OfCell(Get(libDicOfCells, SortBy(Keys(libDicOfCells), FALSE)[1]), PinPath(w, fam))
  IN OfLibrary(Get(d.spec, SortBy(Keys(d.spec), FALSE)[1]))

\* one row of the multi-cell table: acc holds the widgets (w), the local
\* index choices (index1, index2; the int 0 is written "0") and the row counter
MultiRow(fam, lib, cell, arc, acc) ==
  LET Filled(w1, t, i, j) ==
        [w1 EXCEPT !.table[fam] =
                     setItem(setItem(setItem(setItem(setItem(@,
                       acc.row, 0, lib), acc.row, 1, cell), acc.row, 2, t.index_1[i + 1]),
                       acc.row, 3, IF Len(t.index_2) > 0 THEN t.index_2[j + 1] ELSE <<>>),
                       acc.row, 4, t.values[i + 1][j + 1]),
                   !.figure[fam].XList = Append(@, CellLabel(acc.row))]
      Plotted(a1, w2, value) ==
        IF ~IsFloatText(value)
        THEN [a1 EXCEPT !.w = Raise(w2, "ValueError")]
        ELSE [a1 EXCEPT !.w = [w2 EXCEPT !.figure[fam].YList = Append(@, ToFloat(value))],
                        !.row = acc.row + 1]
      Row(a1, t, i, j) ==
        IF i >= Len(t.index_1)
        THEN [a1 EXCEPT !.w = Raise(a1.w, "IndexError")]
        ELSE IF Len(t.index_2) > 0 /\ j >= Len(t.index_2)
        THEN [a1 EXCEPT !.w = Raise(a1.w, "IndexError")]
        ELSE IF i >= Len(t.values) \/ j >= Len(t.values[i + 1])
        THEN [a1 EXCEPT !.w = Raise(a1.w, "IndexError")]
        ELSE Plotted(a1, Filled(a1.w, t, i, j), t.values[i + 1][j + 1])
      Looked(a1, tables, tableType) ==
        IF ~HasKey(tables, tableType)
        THEN [a1 EXCEPT !.w = Raise(a1.w, "KeyError")]
        ELSE Row(a1, Get(tables, tableType), TextToInt(a1.index1), TextToInt(a1.index2))
  IN Looked([acc EXCEPT
               !.w.combo[fam]["Index1"] = IF acc.index1 = <<>> THEN setCurrentText(@, <<"0">>) ELSE @,
               !.w.combo[fam]["Index2"] = IF acc.index2 = <<>> THEN setCurrentText(@, <<"0">>) ELSE @,
               !.index1 = IF @ = <<>> THEN <<"0">> ELSE @,
               !.index2 = IF @ = <<>> THEN <<"0">> ELSE @],
            Get(arc, "table_type"), Sel(acc.w, fam, "TableType"))

RECURSIVE MultiArcs(_, _, _, _, _, _)
\* for pinTimingDic in pinTimingDicList: ... (several selected cells); sel is the
\* widget state the discriminator choices were read from
MultiArcs(fam, sel, lib, cell, arcs, acc) ==
  IF arcs = <<>> \/ acc.w.raised # ""
  THEN acc
  ELSE IF ArcMatches(sel, fam, Head(arcs))
  THEN MultiArcs(fam, sel, lib, cell, Tail(arcs), MultiRow(fam, lib, cell, Head(arcs), acc))
  ELSE MultiArcs(fam, sel, lib, cell, Tail(arcs), acc)

RECURSIVE MultiCells(_, _, _, _, _)
\* for libraryFileName in <fam>TabDic: for cellName in <fam>TabDic[libraryFileName]: ...
MultiCells(d, fam, sel, cells, acc) ==
  IF cells = <<>> \/ acc.w.raised # ""
  THEN acc
  ELSE LET OfPin(x, pinDic) ==
             MultiArcs(fam, sel, x.lib, x.cell,
                       IF HasKey(pinDic, fam) THEN Get(pinDic, fam) ELSE <<>>, acc)
           OfCell(x, cellDic, path) ==
             IF ~HasPath(cellDic, path)
             THEN [acc EXCEPT !.w = Raise(acc.w, "KeyError")]
             ELSE MultiCells(d, fam, sel, Tail(cells), OfPin(x, GetPath(cellDic, path)))
       IN OfCell(Head(cells), Get(Get(d.spec, Head(cells).lib), Head(cells).cell),
                 PinPath(sel, fam))

MultiTableLabels ==
  <<<<"L", "I", "B">>, <<"C", "E", "L", "L">>, <<"i", "n", "d", "e", "x", "_", "1">>,
    <<"i", "n", "d", "e", "x", "_", "2">>, <<"v", "a", "l", "u", "e">>>>

\* the branch <fam>TabMultiEnable
updateTabTableMulti(d, w, fam) ==
  MultiCells(d, fam, w, CellSeq(d.tab[fam]),
             [w |-> [w EXCEPT !.table[fam] =
                                setRowCount(setHorizontalHeaderLabels(setColumnCount(@, 5),
                                                                      MultiTableLabels),
                                            d.count)],
              index1 |-> Sel(w, fam, "Index1"),
              index2 |-> Sel(w, fam, "Index2"), row |-> 0]).w

EmptyFigure == [XList |-> <<>>, YList |-> <<>>, XArray |-> <<>>, YArray |-> <<>>, ZArray |-> <<>>]

\* updateTimingTabTable / updateInternalPowerTabTable (the figure that follows
\* only draws)
updateTabTable(d, w, fam) ==
  LET Cleared(w0) ==
        IF ~TabEnabled(d, fam) THEN w0
        ELSE IF d.count = 1
        THEN updateTabTableSingle(d, [w0 EXCEPT !.figure[fam] = EmptyFigure], fam)
        ELSE IF d.multi[fam]
        THEN updateTabTableMulti(d, [w0 EXCEPT !.figure[fam] = EmptyFigure], fam)
        ELSE [w0 EXCEPT !.figure[fam] = EmptyFigure]
  IN Cleared([w EXCEPT !.table[fam] = setColumnCount(setRowCount(@, 0), 0)])

-----------------------------------------------------------------------------
(* The selector stages of a family tab.  In the source every update<Tab>...Combo  *)
(* clears and fills its combo box and ends by calling the handler of the next     *)
(* stage; here an operator per stage gives the widgets after the filling, and     *)
(* updateTabFrom runs the stages one after the other.                             *)

\* the pin entry of the first traversed cell of <fam>TabDic the stage reads
FirstCellDic(d, fam) == CellSeq(d.tab[fam])[1].v

\* the items of an index combo box when the positions are counted from 1
IndexItemsFromOne(n) == <<<<>>>> \o AsTuple([i \in 1..n |-> IntToText(i)])

\* str(i) for i in list(set(range(n))): small ints enumerate in ascending order
IndexItems(n) == <<<<>>>> \o AsTuple([i \in 1..n |-> IntToText(i - 1)])

\* updateTimingTabBundleCombo, updateTimingTabBusCombo and their internal power
\* twins: the groups of the first traversed cell that has the scope key; only the
\* timing tab puts '' in front
updateTabGroupCombo(d, w, fam, stage, scope) ==
  LET Filled(w0, cells) ==
        IF ~TabEnabled(d, fam) \/ cells = <<>>
        THEN w0
        ELSE [w0 EXCEPT !.combo[fam][stage] =
                          addItems(@, (IF fam = "timing" THEN <<<<>>>> ELSE <<>>)
                                        \o SetOrder(d.order, Keys(Get(cells[1].v, scope))))]
  IN Filled([w EXCEPT !.combo[fam][stage] = EmptyCombo],
            SelectSeq(CellSeq(d.tab[fam]), LAMBDA c : HasKey(c.v, scope)))

\* updateTimingTabPinCombo / updateInternalPowerTabPinCombo
updateTabPinCombo(d, w, fam) ==
  LET Filled(w0, cellDic, path) ==
        IF HasPath(cellDic, path)
        THEN [w0 EXCEPT !.combo[fam]["Pin"] =
                          addItems(@, SetOrder(d.order, Keys(GetPath(cellDic, path))))]
        ELSE IF Len(path) = 1
        THEN w0
        ELSE Raise(w0, "KeyError")
      Cleared(w0) ==
        IF ~TabEnabled(d, fam) \/ d.tab[fam] = <<>>
        THEN w0
        ELSE Filled(w0, FirstCellDic(d, fam),
                    IF Sel(w0, fam, "Bundle") # <<>>
                    THEN <<"bundle", Sel(w0, fam, "Bundle"), "pin">>
                    ELSE IF Sel(w0, fam, "Bus") # <<>>
                    THEN <<"bus", Sel(w0, fam, "Bus"), "pin">>
                    ELSE <<"pin">>)
  IN Cleared([w EXCEPT !.combo[fam]["Pin"] = EmptyCombo])

\* the combo box of a discriminator or of the table type: the candidates are the
\* keys of the dictionary that path leads to below the current choices
\* (updateTimingTabRelatedPinCombo ... updateTimingTabTableTypeCombo and their
\* internal power twins)
updateTabKeyCombo(d, w, fam, stage, path) ==
  LET Filled(w0, pinDic) ==
        IF ~HasKey(pinDic, fam)
        THEN w0
        ELSE IF ~HasPath(Get(pinDic, fam), path)
        THEN Raise(w0, "KeyError")
        ELSE [w0 EXCEPT !.combo[fam][stage] =
                          addItems(@, SetOrder(d.order, Keys(GetPath(Get(pinDic, fam), path))))]
      OfCell(w0, cellDic, pinPath) ==
        IF ~HasPath(cellDic, pinPath)
        THEN Raise(w0, "KeyError")
        ELSE Filled(w0, GetPath(cellDic, pinPath))
      Cleared(w0) ==
        IF ~TabEnabled(d, fam) \/ d.tab[fam] = <<>>
        THEN w0
        ELSE OfCell(w0, FirstCellDic(d, fam), PinPath(w0, fam))
  IN Cleared([w EXCEPT !.combo[fam][stage] = EmptyCombo])

\* updateTimingTabIndexCombo / updateInternalPowerTabIndexCombo
updateTabIndexCombo(d, w, fam) ==
  LET Added(w0, n1, n2) ==
        [w0 EXCEPT !.combo[fam]["Index1"] = addItems(@, IndexItems(n1)),
                   !.combo[fam]["Index2"] = addItems(@, IndexItems(n2))]
      OfLeaf(w0, leaf) == Added(w0, Get(leaf, "index_1"), Get(leaf, "index_2"))
      Filled(w0, pinDic, path) ==
        IF ~HasKey(pinDic, fam)
        THEN Added(w0, 0, 0)
        ELSE IF ~HasPath(Get(pinDic, fam), path)
        THEN Raise(w0, "KeyError")
        ELSE OfLeaf(w0, GetPath(Get(pinDic, fam), path))
      OfCell(w0, cellDic, pinPath) ==
        IF ~HasPath(cellDic, pinPath)
        THEN Raise(w0, "KeyError")
        ELSE Filled(w0, GetPath(cellDic, pinPath),
                    HierPath(fam, SelValues(w0, fam), Len(DiscStages(fam)))
                      \o <<"table_type", Sel(w0, fam, "TableType")>>)
      Cleared(w0) ==
        IF ~TabEnabled(d, fam) \/ d.tab[fam] = <<>>
        THEN w0
        ELSE OfCell(w0, FirstCellDic(d, fam), PinPath(w0, fam))
  IN Cleared([w EXCEPT !.combo[fam]["Index1"] = EmptyCombo,
                       !.combo[fam]["Index2"] = EmptyCombo])

\* the stages of a family tab in the order in which the handlers call each other
TabStages(fam) ==
  <<"Bundle", "Bus", "Pin">> \o DiscStages(fam) \o <<"TableType", "Index", "Table">>

RECURSIVE updateTabFrom(_, _, _, _)
\* the handler of stage n and the handlers it calls; an exception ends them.
\* updateTimingTab / updateInternalPowerTab is updateTabFrom(d, w, fam, 1).
updateTabFrom(d, w, fam, n) ==
  LET Then(w1) == IF w1.raised # "" THEN w1 ELSE updateTabFrom(d, w1, fam, n + 1)
      Stage(stage) ==
        IF stage = "Bundle" THEN Then(updateTabGroupCombo(d, w, fam, "Bundle", "bundle"))
        ELSE IF stage = "Bus" THEN Then(updateTabGroupCombo(d, w, fam, "Bus", "bus"))
        ELSE IF stage = "Pin" THEN Then(updateTabPinCombo(d, w, fam))
        ELSE IF stage = "TableType"
        THEN Then(updateTabKeyCombo(d, w, fam, "TableType",
                    HierPath(fam, SelValues(w, fam), Len(DiscStages(fam)))
                      \o <<"table_type">>))
        ELSE IF stage = "Index" THEN Then(updateTabIndexCombo(d, w, fam))
        ELSE IF stage = "Table" THEN updateTabTable(d, w, fam)
        ELSE Then(updateTabKeyCombo(d, w, fam, stage,
                    HierPath(fam, SelValues(w, fam), n - 4) \o <<Discriminators(fam)[n - 3]>>))
  IN Stage(TabStages(fam)[n])

-----------------------------------------------------------------------------
(* The area tab and the leakage power tab *)

RECURSIVE AreaRows(_, _)
\* the row loop of updateAreaTabTable; acc holds the widgets (w) and the row counter
AreaRows(cells, acc) ==
  IF cells = <<>> \/ acc.w.raised # ""
  THEN acc
  ELSE LET c == Head(cells)
           cellArea == Get(c.v, "area")
           t == setItem(setItem(setItem(acc.w.table["area"], acc.row, 0, c.lib),
                                acc.row, 1, c.cell), acc.row, 2, cellArea)
           w1 == [acc.w EXCEPT !.table["area"] = t,
                               !.figure["area"].XList = Append(@, CellLabel(acc.row))]
       IN IF ~IsFloatText(cellArea)
          THEN [acc EXCEPT !.w = Raise(w1, "ValueError")]
          ELSE AreaRows(Tail(cells),
                        [w |-> [w1 EXCEPT !.figure["area"].YList = Append(@, ToFloat(cellArea))],
                         row |-> acc.row + 1])

\* updateAreaTab (updateAreaTabTable; the figure that follows only draws)
updateAreaTab(d, w) ==
  LET w0 == [w EXCEPT !.table["area"] = setRowCount(@, d.count),
                      !.figure["area"].XList = <<>>,
                      !.figure["area"].YList = <<>>]
  IN AreaRows(CellSeq(d.spec), [w |-> w0, row |-> 0]).w

\* QTableWidgetItem(0) is an item without text; float(0) is 0.0
ZeroValue ==
  [text |-> <<>>, isFloat |-> TRUE, number |-> [neg |-> FALSE, int |-> <<>>, frac |-> <<>>]]

RECURSIVE FirstLeakageValue(_, _, _)
\* the value of the first entry with the chosen when and related_pg_pin, else 0
FirstLeakageValue(entries, when, pg) ==
  IF entries = <<>> THEN ZeroValue
  ELSE IF Head(entries).when = when /\ Head(entries).related_pg_pin = pg
  THEN [text |-> Head(entries).value,
        isFloat |-> IsFloatText(Head(entries).value),
        number |-> ToFloat(Head(entries).value)]
  ELSE FirstLeakageValue(Tail(entries), when, pg)

RECURSIVE LeakageMultiRows(_, _, _, _)
\* several cells: one row per selected cell
LeakageMultiRows(cells, when, pg, acc) ==
  IF cells = <<>> \/ acc.w.raised # ""
  THEN acc
  ELSE LET c == Head(cells)
           value == FirstLeakageValue(Get(c.v, "leakage_power"), when, pg)
           t == setItem(setItem(setItem(setItem(setItem(acc.w.table["leakage_power"],
                  acc.row, 0, c.lib), acc.row, 1, c.cell), acc.row, 2, when),
                  acc.row, 3, pg), acc.row, 4, value.text)
           w1 == [acc.w EXCEPT !.table["leakage_power"] = t,
                               !.figure["leakage_power"].XList = Append(@, CellLabel(acc.row))]
       IN IF ~value.isFloat
          THEN [acc EXCEPT !.w = Raise(w1, "ValueError")]
          ELSE LeakageMultiRows(Tail(cells), when, pg,
                 [w |-> [w1 EXCEPT !.figure["leakage_power"].YList = Append(@, value.number)],
                  row |-> acc.row + 1])

\* the leakage entries of the selected cells in traversal order
LeakageEntries(spec) ==
  Flatten(AsTuple([i \in 1..Len(CellSeq(spec)) |->
             AsTuple([j \in 1..Len(Get(CellSeq(spec)[i].v, "leakage_power")) |->
                [lib |-> CellSeq(spec)[i].lib, cell |-> CellSeq(spec)[i].cell,
                 e |-> Get(CellSeq(spec)[i].v, "leakage_power")[j]]])]))

RECURSIVE LeakageListRows(_, _)
\* otherwise: one row per leakage entry of every selected cell
LeakageListRows(entries, acc) ==
  IF entries = <<>> \/ acc.w.raised # ""
  THEN acc
  ELSE LET x == Head(entries)
           t == setItem(setItem(setItem(setItem(setItem(acc.w.table["leakage_power"],
                  acc.row, 0, x.lib), acc.row, 1, x.cell), acc.row, 2, x.e.when),
                  acc.row, 3, x.e.related_pg_pin), acc.row, 4, x.e.value)
           w1 == [acc.w EXCEPT !.table["leakage_power"] = t,
                               !.figure["leakage_power"].XList = Append(@, CellLabel(acc.row))]
       IN IF ~IsFloatText(x.e.value)
          THEN [acc EXCEPT !.w = Raise(w1, "ValueError")]
          ELSE LeakageListRows(Tail(entries),
                 [w |-> [w1 EXCEPT !.figure["leakage_power"].YList =
                                      Append(@, ToFloat(x.e.value))],
                  row |-> acc.row + 1])

\* updateLeakagePowerTabTable (the figure that follows only draws)
updateLeakagePowerTabTable(d, w) ==
  LET ListRows(w0, entries) ==
        LeakageListRows(entries,
                        [w |-> [w0 EXCEPT !.table["leakage_power"] = setRowCount(@, Len(entries))],
                         row |-> 0]).w
      Rows(w0) ==
        IF d.multi["leakage_power"]
        THEN LeakageMultiRows(CellSeq(d.spec), Sel(w, "leakage_power", "When"),
                              Sel(w, "leakage_power", "RelatedPgPin"),
                              [w |-> [w0 EXCEPT !.table["leakage_power"] = setRowCount(@, d.count)],
                               row |-> 0]).w
        ELSE ListRows(w0, LeakageEntries(d.spec))
  IN Rows([w EXCEPT !.figure["leakage_power"].XList = <<>>,
                    !.figure["leakage_power"].YList = <<>>])

\* updateLeakagePowerTabRelatedPgPinCombo up to its call of updateLeakagePowerTabTable
updateLeakagePowerTabRelatedPgPinCombo(d, w) ==
  LET Filled(w0, cellDic, path) ==
        IF ~HasPath(cellDic, path)
        THEN Raise(w0, "KeyError")
        ELSE [w0 EXCEPT !.combo["leakage_power"]["RelatedPgPin"] =
                          addItems(@, SetOrder(d.order, GetPath(cellDic, path)))]
      Cleared(w0) ==
        IF ~d.multi["leakage_power"] \/ d.tab["leakage_power"] = <<>>
        THEN w0
        ELSE Filled(w0, FirstCellDic(d, "leakage_power"),
                    <<"leakage_power", "when", Sel(w0, "leakage_power", "When"),
                      "related_pg_pin">>)
  IN Cleared([w EXCEPT !.combo["leakage_power"]["RelatedPgPin"] = EmptyCombo])

\* updateLeakagePowerTabWhenCombo up to its call of
\* updateLeakagePowerTabRelatedPgPinCombo
updateLeakagePowerTabWhenCombo(d, w) ==
  LET Filled(w0, cellDic, path) ==
        IF ~HasPath(cellDic, path)
        THEN Raise(w0, "KeyError")
        ELSE [w0 EXCEPT !.combo["leakage_power"]["When"] =
                          addItems(@, SetOrder(d.order, Keys(GetPath(cellDic, path))))]
      Cleared(w0) ==
        IF ~d.multi["leakage_power"] \/ d.tab["leakage_power"] = <<>>
        THEN w0
        ELSE Filled(w0, FirstCellDic(d, "leakage_power"), <<"leakage_power", "when">>)
  IN Cleared([w EXCEPT !.combo["leakage_power"]["When"] = EmptyCombo])

\* the stages of the leakage power tab in the order in which the handlers call
\* each other
LeakageStages == <<"When", "RelatedPgPin", "Table">>

RECURSIVE updateFrom(_, _, _, _)
\* the handler of stage n of a tab and the handlers it calls; an exception ends
\* them.  updateAreaTab, updateLeakagePowerTab, updateTimingTab and
\* updateInternalPowerTab are updateFrom(d, w, tab, 1).
updateFrom(d, w, tab, n) ==
  LET Then(w1) == IF w1.raised # "" THEN w1 ELSE updateFrom(d, w1, tab, n + 1)
  IN IF tab = "area" THEN updateAreaTab(d, w)
     ELSE IF tab # "leakage_power" THEN updateTabFrom(d, w, tab, n)
     ELSE IF LeakageStages[n] = "When" THEN Then(updateLeakagePowerTabWhenCombo(d, w))
     ELSE IF LeakageStages[n] = "RelatedPgPin"
     THEN Then(updateLeakagePowerTabRelatedPgPinCombo(d, w))
     ELSE updateLeakagePowerTabTable(d, w)

Tabs == <<"area", "leakage_power", "timing", "internal_power">>

RECURSIVE updateTabs(_, _, _)
\* updateMainFrameTabs from the n-th tab on; an exception ends the handler
updateTabs(d, w, n) ==
  IF n > Len(Tabs) \/ w.raised # "" THEN w
  ELSE updateTabs(d, updateFrom(d, w, Tabs[n], 1), n + 1)

\* updateMainFrameTabs: the four tabs in order
updateMainFrameTabs(d, w) == updateTabs(d, w, 1)

-----------------------------------------------------------------------------
(* checkTabMultiEnable and cellListBeClicked *)

RECURSIVE CompareCells(_, _)
\* the loop of checkTabMultiEnable: lastTabCellDic is replaced while it is empty
CompareCells(cells, lastTabCellDic) ==
  IF cells = <<>> THEN TRUE
  ELSE IF lastTabCellDic = <<>> THEN CompareCells(Tail(cells), Head(cells).v)
  ELSE IF lastTabCellDic # Head(cells).v THEN FALSE
  ELSE CompareCells(Tail(cells), lastTabCellDic)

checkTabMultiEnable(tabDic, count) ==
  IF count < 2 THEN FALSE ELSE CompareCells(CellSeq(tabDic), <<>>)

\* the three flags when each is the plain comparison of the cells, with no test
\* of the number of selected cells
CompareOnly(tabs, count) ==
  [tab \in ComboTabs |-> CompareCells(CellSeq(tabs[tab]), <<>>)]

\* the three flags when one comparison decides for all families
CompareJointly(tabs, count) ==
  [tab \in ComboTabs |->
     \A other \in ComboTabs : checkTabMultiEnable(tabs[other], count)]

\* cellListBeClicked, "Check tab multi-enable": the three flags, each from its
\* own tab dictionary
TabMultiEnables(tabs, count) ==
  IF count >= 2
  THEN [tab \in ComboTabs |-> checkTabMultiEnable(tabs[tab], count)]
  ELSE [tab \in ComboTabs |-> FALSE]

\* the tree items below the library items, in QTreeWidgetItemIterator order
TreeItems(tree) ==
  Flatten(AsTuple([l \in 1..Len(tree) |->
             AsTuple([c \in 1..Len(tree[l].cells) |->
                [lib |-> tree[l].lib, cell |-> tree[l].cells[c].name,
                 checked |-> tree[l].cells[c].checked]])]))

RECURSIVE CollectEvery(_, _)
\* the first loop of cellListBeClicked when the check state is not read: every
\* cell item is taken
CollectEvery(items, acc) ==
  IF items = <<>> THEN acc
  ELSE CollectEvery(Tail(items),
                    IF HasPath(acc.spec, <<Head(items).lib, Head(items).cell>>)
                    THEN acc
                    ELSE [spec |-> EnsurePath(acc.spec, <<Head(items).lib, Head(items).cell>>),
                          count |-> acc.count + 1])

RECURSIVE CollectCounting(_, _)
\* the first loop of cellListBeClicked when specifiedCellCount counts every cell
\* item the loop visits
CollectCounting(items, acc) ==
  IF items = <<>> THEN acc
  ELSE CollectCounting(Tail(items),
         [spec |-> IF Head(items).checked
                   THEN EnsurePath(acc.spec, <<Head(items).lib, Head(items).cell>>)
                   ELSE acc.spec,
          count |-> acc.count + 1])

RECURSIVE CollectChecked(_, _)
\* the first loop of cellListBeClicked; acc holds specifiedLibDic and specifiedCellCount
CollectChecked(items, acc) ==
  LET Removed(x, rest) ==
        [spec |-> IF rest = <<>>
                  THEN SelectSeq(acc.spec, LAMBDA e : e.k # x.lib)
                  ELSE Put(acc.spec, x.lib, rest),
         count |-> acc.count - 1]
      Item(x, present) ==
        IF x.checked = present THEN acc
        ELSE IF x.checked
        THEN [spec |-> EnsurePath(acc.spec, <<x.lib, x.cell>>), count |-> acc.count + 1]
        ELSE Removed(x, SelectSeq(Get(acc.spec, x.lib), LAMBDA e : e.k # x.cell))
  IN IF items = <<>> THEN acc
     ELSE CollectChecked(Tail(items),
                         Item(Head(items), HasPath(acc.spec, <<Head(items).lib, Head(items).cell>>)))

\* the projection of one selected cell from what the parser of its library
\* returns: its entry of specifiedLibDic and of the three tab dictionaries
\* (getCellAreaInfo, getCellLeakagePowerInfo, getTimingInfo, getInternalPowerInfo)
ProjectParsed(parsed, cellName, count) ==
  LET Power(leakage, timing, power) ==
        [spec |-> power.spec,
         leakage_power |-> <<[k |-> "leakage_power", v |-> leakage.tab]>>,
         timing |-> timing.tab,
         internal_power |-> power.tab]
      Timing(pins, leakage, timing) ==
        Power(leakage, timing, getInternalPowerInfo(pins, timing.spec))
      Leakage(lib, leakage) ==
        Timing(Get(lib.pin, cellName), leakage,
               getTimingInfo(Get(lib.pin, cellName),
                             Put(getCellAreaInfo(cellName, lib.area, <<>>), "leakage_power",
                                 leakage.list)))
      Parsed(lib) == Leakage(lib, getCellLeakagePowerInfo(cellName, lib.leakage, count))
  IN Parsed(parsed)

\* the projection of one selected cell on a freshly parsed library
ProjectCellOf(libraryFile, cellName, count) ==
  ProjectParsed(Parser(libraryFile), cellName, count)

LibraryFileSeq == <<LibAPath, LibBPath>>

\* The projection reads the parsed file, the cell name and whether two or more
\* cells are selected, nothing else: every projection is computed once here.
Projections ==
  AsTuple([f \in 1..Len(LibraryFileSeq) |->
     AsTuple([c \in 1..Len(Parser(LibraryFileSeq[f]).cellList) |->
        AsTuple([m \in 1..2 |->
           ProjectCellOf(LibraryFileSeq[f], Parser(LibraryFileSeq[f]).cellList[c], m)])])])

\* the projection of one selected cell, looked up
ProjectCell(libraryFile, cellName, count) ==
  Projections[CHOOSE f \in 1..Len(LibraryFileSeq) : LibraryFileSeq[f] = libraryFile]
             [CHOOSE c \in 1..Len(Parser(libraryFile).cellList) :
                Parser(libraryFile).cellList[c] = cellName]
             [IF count >= 2 THEN 2 ELSE 1]

RECURSIVE ProjectCells(_, _, _, _)
\* the second loop of cellListBeClicked: acc.spec is specifiedLibDic, the other
\* fields are the three tab dictionaries
ProjectCells(libs, cells, count, acc) ==
  IF cells = <<>> THEN acc
  ELSE LET x == Head(cells)
           Merged(p) ==
             [spec |-> SetPath(acc.spec, <<x.lib, x.cell>>, p.spec),
              leakage_power |-> SetPath(acc.leakage_power, <<x.lib, x.cell>>, p.leakage_power),
              timing |-> SetPath(acc.timing, <<x.lib, x.cell>>, p.timing),
              internal_power |-> SetPath(acc.internal_power, <<x.lib, x.cell>>, p.internal_power)]
       IN Apply(LAMBDA a : ProjectCells(libs, Tail(cells), count, a),
                Apply(Merged, ProjectCell(Get(libs, x.lib).libraryFile, x.cell, count)))

\* updateMainFrameLibCell: the names without repetition
RECURSIVE Unique(_)
Unique(list) ==
  IF list = <<>> THEN <<>>
  ELSE LET init == Unique(SubSeq(list, 1, Len(list) - 1))
       IN IF \E i \in 1..Len(init) : init[i] = list[Len(list)]
          THEN init ELSE Append(init, list[Len(list)])

-----------------------------------------------------------------------------
(* State *)

VARIABLES
  hashOrder,                    \* the order in which this process enumerates a set of str
  libDic,                       \* file name -> [libraryFile, cellList], in load order
  leakagePowerUnit,
  timingUnit,
  internalPowerUnit,
  cellListTree,                 \* the library items with their cell items and check states
  specifiedLibDic,
  specifiedCellCount,
  leakagePowerTabDic,
  timingTabDic,
  internalPowerTabDic,
  leakagePowerTabMultiEnable,
  timingTabMultiEnable,
  internalPowerTabMultiEnable,
  libLine,
  cellLine,
  combo,                        \* combo[tab][stage]: the QComboBox widgets
  table,                        \* table[tab]: the QTableWidget widgets
  figure,                       \* figure[tab]: the <tab>TabFigure... attributes
  raised                        \* the exception a handler raised, "" if none

vars ==
  <<hashOrder, libDic, leakagePowerUnit, timingUnit, internalPowerUnit, cellListTree,
    specifiedLibDic, specifiedCellCount, leakagePowerTabDic, timingTabDic,
    internalPowerTabDic, leakagePowerTabMultiEnable, timingTabMultiEnable,
    internalPowerTabMultiEnable, libLine, cellLine, combo, table, figure, raised>>

\* the bound on the number of cells checked at a time
MaxChecked == 2

\* the bound on the number of combo boxes that show another item than the one
\* the handlers made current
MaxPicks == 2

\* the combo boxes of a tab
Combos(tab) ==
  IF tab = "leakage_power" THEN {"When", "RelatedPgPin"}
  ELSE {"Bundle", "Bus", "Pin", "TableType", "Index1", "Index2"}
         \cup {DiscStages(tab)[i] : i \in 1..Len(DiscStages(tab))}


AreaTableLabels == <<<<"L", "I", "B">>, <<"C", "E", "L", "L">>, <<"a", "r", "e", "a">>>>

LeakageTableLabels ==
  <<<<"L", "I", "B">>, <<"C", "E", "L", "L">>, <<"w", "h", "e", "n">>,
    <<"r", "e", "l", "a", "t", "e", "d", "_", "p", "g", "_", "p", "i", "n">>,
    <<"v", "a", "l", "u", "e">>>>

\* initVars and initUI: nothing loaded, nothing selected.  The three tab
\* dictionaries are created by the first cellListBeClicked and read by no
\* handler before; they start as empty dictionaries here.
Init ==
  /\ hashOrder \in HashOrders
  /\ libDic = <<>>
  /\ leakagePowerUnit = <<>>
  /\ timingUnit = <<>>
  /\ internalPowerUnit = <<>>
  /\ cellListTree = <<>>
  /\ specifiedLibDic = <<>>
  /\ specifiedCellCount = 0
  /\ leakagePowerTabDic = <<>>
  /\ timingTabDic = <<>>
  /\ internalPowerTabDic = <<>>
  /\ leakagePowerTabMultiEnable = FALSE
  /\ timingTabMultiEnable = FALSE
  /\ internalPowerTabMultiEnable = FALSE
  /\ libLine = <<>>
  /\ cellLine = <<>>
  /\ combo = [tab \in ComboTabs |-> [stage \in Combos(tab) |-> EmptyCombo]]
  /\ table = [area |-> EmptyTable(3, AreaTableLabels),
              leakage_power |-> EmptyTable(5, LeakageTableLabels),
              timing |-> EmptyTable(0, <<>>),
              internal_power |-> EmptyTable(0, <<>>)]
  /\ figure = [area |-> NoFigure, leakage_power |-> NoFigure,
               timing |-> NoFigure, internal_power |-> NoFigure]
  /\ raised = ""

\* the data the handlers read, in the current state
Data ==
  [order |-> hashOrder,
   spec |-> specifiedLibDic,
   count |-> specifiedCellCount,
   tab |-> [leakage_power |-> leakagePowerTabDic, timing |-> timingTabDic,
            internal_power |-> internalPowerTabDic],
   multi |-> [leakage_power |-> leakagePowerTabMultiEnable,
              timing |-> timingTabMultiEnable,
              internal_power |-> internalPowerTabMultiEnable]]

\* the widgets the handlers write, at the start of a handler.  A handler that
\* raises leaves the widgets as they are at that point and sets raised; no
\* sys.excepthook is installed, so PyQt5 then ends the process with qFatal and
\* no further handler runs.
Widgets == [combo |-> combo, table |-> table, figure |-> figure, raised |-> ""]

SetWidgets(w) ==
  /\ combo' = w.combo
  /\ table' = w.table
  /\ figure' = w.figure
  /\ raised' = w.raised

-----------------------------------------------------------------------------
(* Actions *)

\* the cell tree with the library loaded last as the first library item
LastLoadedFirstTree(libs, spec) ==
  AsTuple([l \in 1..Len(libs) |->
     [lib |-> libs[Len(libs) + 1 - l].k,
      cells |-> LET sortedCellList == sortCellWithSize(libs[Len(libs) + 1 - l].v.cellList)
                IN AsTuple([c \in 1..Len(sortedCellList) |->
                      [name |-> sortedCellList[c],
                       checked |-> HasPath(spec, <<libs[Len(libs) + 1 - l].k,
                                                   sortedCellList[c]>>)]])]])

\* the cell tree with no cell item checked
UncheckedTree(libs, spec) ==
  AsTuple([l \in 1..Len(libs) |->
     [lib |-> libs[l].k,
      cells |-> LET sortedCellList == sortCellWithSize(libs[l].v.cellList)
                IN AsTuple([c \in 1..Len(sortedCellList) |->
                      [name |-> sortedCellList[c], checked |-> FALSE]])]])

\* updateCellListTree: the tree is rebuilt from libDic; a cell is checked iff it
\* is in specifiedLibDic
updateCellListTree(libs, spec) ==
  AsTuple([l \in 1..Len(libs) |->
     [lib |-> libs[l].k,
      cells |-> LET sortedCellList == sortCellWithSize(libs[l].v.cellList)
                IN AsTuple([c \in 1..Len(sortedCellList) |->
                      [name |-> sortedCellList[c],
                       checked |-> HasPath(spec, <<libs[l].k, sortedCellList[c]>>)]])]])

\* re.sub('\d', '', re.sub('"', '', unit))
UnitName(unit) == RemoveChars(DeQuote(unit), {Digits[i] : i \in 1..10})

\* loadLibFile(libraryFile): File > Load with the chosen file
LoadLibFile(libraryFile) ==
  /\ raised = ""
  /\ raised' = ""
  /\ IF HasKey(libDic, Basename(libraryFile))
     THEN UNCHANGED <<libDic, leakagePowerUnit, timingUnit, internalPowerUnit, cellListTree>>
     ELSE \E myParser \in {Parser(libraryFile)} :
            \E libs \in {Put(libDic, Basename(libraryFile),
                              [libraryFile |-> libraryFile,
                               cellList |-> myParser.cellList])} :
              /\ libDic' = libs
              /\ leakagePowerUnit' =
                   IF "leakage_power_unit" \in DOMAIN myParser.unit /\ leakagePowerUnit = <<>>
                   THEN UnitName(myParser.unit["leakage_power_unit"]) ELSE leakagePowerUnit
              /\ internalPowerUnit' =
                   IF "leakage_power_unit" \in DOMAIN myParser.unit /\ leakagePowerUnit = <<>>
                   THEN UnitName(myParser.unit["leakage_power_unit"]) ELSE internalPowerUnit
              /\ timingUnit' =
                   IF "time_unit" \in DOMAIN myParser.unit /\ timingUnit = <<>>
                   THEN UnitName(myParser.unit["time_unit"]) ELSE timingUnit
              /\ cellListTree' = updateCellListTree(libs, specifiedLibDic)
  /\ UNCHANGED <<hashOrder, specifiedLibDic, specifiedCellCount, leakagePowerTabDic, timingTabDic,
                 internalPowerTabDic, leakagePowerTabMultiEnable, timingTabMultiEnable,
                 internalPowerTabMultiEnable, libLine, cellLine, combo, table, figure>>

\* the check box of cell item c of library item l is toggled
Toggle(tree, l, c) == [tree EXCEPT ![l].cells[c].checked = ~@]

CheckedCount(tree) == Len(SelectSeq(TreeItems(tree), LAMBDA x : x.checked))

\* the end of cellListBeClicked, after the projection p of the count selected
\* cells: the flags, the two line edits and the widgets (updateMainFrame)
Refreshed(count, p, widgets, order) ==
  LET Shown(cells, d) ==
        [d |-> d,
         libLine |-> Join(Unique(AsTuple([i \in 1..Len(cells) |-> cells[i].lib]))),
         cellLine |-> Join(Unique(AsTuple([i \in 1..Len(cells) |-> cells[i].cell]))),
         w |-> updateMainFrameTabs(d, widgets)]
  IN Shown(CellSeq(p.spec),
           [order |-> order,
            spec |-> p.spec,
            count |-> count,
            tab |-> [leakage_power |-> p.leakage_power, timing |-> p.timing,
                     internal_power |-> p.internal_power],
            multi |-> TabMultiEnables(p, count)])

\* the state cellListBeClicked leaves when the tree is as given: the selection,
\* the tab dictionaries, the flags, the two line edits and the widgets
Clicked(tree, libs, widgets, order) ==
  LET Selected(selected) ==
        Refreshed(selected.count,
                  ProjectCells(libs, CellSeq(selected.spec), selected.count,
                               [spec |-> <<>>, leakage_power |-> <<>>, timing |-> <<>>,
                                internal_power |-> <<>>]),
                  widgets, order)
  IN Selected(CollectChecked(TreeItems(tree), [spec |-> <<>>, count |-> 0]))

\* cellListBeClicked after the user clicked the cell item: on its check box
\* (toggle) or on its text
CellListBeClicked(l, c, toggle) ==
  /\ raised = ""
  /\ \E tree \in {IF toggle THEN Toggle(cellListTree, l, c) ELSE cellListTree} :
       /\ CheckedCount(tree) <= MaxChecked
       /\ cellListTree' = tree
       /\ \E r \in {Clicked(tree, libDic, Widgets, hashOrder)} :
            /\ specifiedLibDic' = r.d.spec
            /\ specifiedCellCount' = r.d.count
            /\ leakagePowerTabDic' = r.d.tab["leakage_power"]
            /\ timingTabDic' = r.d.tab["timing"]
            /\ internalPowerTabDic' = r.d.tab["internal_power"]
            /\ leakagePowerTabMultiEnable' = r.d.multi["leakage_power"]
            /\ timingTabMultiEnable' = r.d.multi["timing"]
            /\ internalPowerTabMultiEnable' = r.d.multi["internal_power"]
            /\ libLine' = r.libLine
            /\ cellLine' = r.cellLine
            /\ SetWidgets(r.w)
  /\ UNCHANGED <<hashOrder, libDic, leakagePowerUnit, timingUnit, internalPowerUnit>>

\* the stages with the activated signal of the index_2 combo box connected to
\* the handler that fills the two index combo boxes
Index2Refills(tab, stage) ==
  IF tab = "leakage_power" THEN (IF stage = "When" THEN 2 ELSE 3)
  ELSE IF stage \in {"Bundle", "Bus"} THEN 3
  ELSE IF stage = "Pin" THEN 4
  ELSE IF stage \in {"TableType", "Index2"} THEN Len(DiscStages(tab)) + 5
  ELSE IF stage = "Index1" THEN Len(DiscStages(tab)) + 6
  ELSE 4 + CHOOSE n \in 1..Len(DiscStages(tab)) : DiscStages(tab)[n] = stage

\* the stage whose handler is connected to the activated signal of a combo box
ActivatedStage(tab, stage) ==
  IF tab = "leakage_power" THEN (IF stage = "When" THEN 2 ELSE 3)
  ELSE IF stage \in {"Bundle", "Bus"} THEN 3
  ELSE IF stage = "Pin" THEN 4
  ELSE IF stage = "TableType" THEN Len(DiscStages(tab)) + 5
  ELSE IF stage \in {"Index1", "Index2"} THEN Len(DiscStages(tab)) + 6
  ELSE 4 + CHOOSE n \in 1..Len(DiscStages(tab)) : DiscStages(tab)[n] = stage

\* the number of combo boxes in which the current item is not the one the
\* handlers made current: the first item, or '0', the second item of an index
\* combo box, when several cells are compared
Picked(d, w) ==
  Cardinality({x \in UNION {{<<tab, stage>> : stage \in Combos(tab)} : tab \in ComboTabs} :
                 w.combo[x[1]][x[2]].cur >
                   IF d.count >= 2 /\ x[2] \in {"Index1", "Index2"} THEN 2 ELSE 1})

\* the user chooses item i of a combo box: it becomes current, activated fires
ComboActivated(tab, stage, i) ==
  /\ raised = ""
  /\ i \in 1..Len(combo[tab][stage].items)
  /\ UNCHANGED <<hashOrder, libDic, leakagePowerUnit, timingUnit, internalPowerUnit,
                 cellListTree, specifiedLibDic, specifiedCellCount, leakagePowerTabDic, timingTabDic,
                 internalPowerTabDic, leakagePowerTabMultiEnable, timingTabMultiEnable,
                 internalPowerTabMultiEnable, libLine, cellLine>>
  /\ \E w \in {updateFrom(Data, [Widgets EXCEPT !.combo[tab][stage].cur = i], tab,
                            ActivatedStage(tab, stage))} :
       /\ Picked(Data, w) <= MaxPicks
       /\ SetWidgets(w)

\* the largest number of items a combo box holds
MaxItems == 4

\* File > Load
LoadLib == \E libraryFile \in LibraryFiles : LoadLibFile(libraryFile)

\* a click on a cell item: on its check box, or on its text (cellListBeClicked
\* takes no argument, so one item stands for all)
ClickCell ==
  \E l \in 1..Len(cellListTree) :
    \E c \in 1..Len(cellListTree[l].cells) :
      \E toggle \in BOOLEAN :
        /\ toggle \/ (l = 1 /\ c = 1)
        /\ CellListBeClicked(l, c, toggle)

\* a choice in a combo box of one of the three tabs
ComboBoxActivated ==
  \E tab \in ComboTabs :
    \E stage \in Combos(tab) :
      \E i \in 1..MaxItems : ComboActivated(tab, stage, i)

Next ==
  \/ LoadLib
  \/ ClickCell
  \/ ComboBoxActivated

Spec == Init /\ [][Next]_vars

-----------------------------------------------------------------------------
(* Properties *)

FamilyTabs == {"timing", "internal_power"}

\* <fam>TabDic and <fam>TabMultiEnable in the current state
TabDic(fam) == Data.tab[fam]

Multi(fam) == Data.multi[fam]

\* the (library, cell) pairs of a lib -> cell -> value dictionary
CellsOf(dic) == {<<CellSeq(dic)[i].lib, CellSeq(dic)[i].cell>> : i \in 1..Len(CellSeq(dic))}

\* the (library, cell) pairs whose check box is checked
CheckedCells ==
  {<<TreeItems(cellListTree)[i].lib, TreeItems(cellListTree)[i].cell>> :
     i \in {j \in 1..Len(TreeItems(cellListTree)) : TreeItems(cellListTree)[j].checked}}

\* the per-cell index of a family, for every selected cell in selection order
Indexes(fam) == AsTuple([i \in 1..Len(CellSeq(TabDic(fam))) |-> CellSeq(TabDic(fam))[i].v])

\* all per-cell indexes of the family are the same dictionary
Identical(fam) == \A i, j \in 1..Len(Indexes(fam)) : Indexes(fam)[i] = Indexes(fam)[j]

\* C1: with two or more cells selected, the multi-compare flag of a family is set
\* exactly when the per-cell indexes of all selected cells are identical, in
\* whatever order the cells stand in the selection and also when some of them
\* have no entry for the family.
C1_FlagIffIdentical ==
  specifiedCellCount >= 2 => \A fam \in ComboTabs : Multi(fam) <=> Identical(fam)

\* the widgets after the handlers from stage n of the tab on have run again on
\* the current state
Recomputed(tab, n) == updateFrom(Data, Widgets, tab, n)

\* in widgets w over data d, the combo boxes after the given one and the table
\* are what the handlers give when they run again from the current choices: every
\* later combo box shows the first of its candidates, none when it has none
LaterStagesFresh(d, w, fam, stage) ==
  \E r \in {updateFrom(d, w, fam, ActivatedStage(fam, stage))} :
    /\ r.raised = ""
    /\ r.combo[fam] = w.combo[fam]
    /\ r.table[fam] = w.table[fam]

\* C2: in the timing and internal power tabs, a choice in a combo box leaves
\* every later combo box at the first candidate computed from the current
\* choices before it (empty when there is none) and the table resolved from the
\* new choices, and the pass ends without exception.
C2_LaterStagesRecomputed ==
  [][\A fam \in FamilyTabs : \A stage \in Combos(fam) : \A i \in 1..MaxItems :
       ComboActivated(fam, stage, i) =>
         /\ raised' = ""
         /\ \E d \in {Data'} : \E w \in {Widgets'} : LaterStagesFresh(d, w, fam, stage)]_vars

\* the combo boxes of a family tab from the pin on, in the order of the stages
CandidateStages(fam) == <<"Pin">> \o DiscStages(fam) \o <<"TableType">>

\* C3: in the timing and internal power tabs, when the pass over the stages
\* finds a stage from the pin on without candidates, it leaves every later
\* stage empty and the table empty, and it ends without raising a lookup error.
C3_EmptyStageEmptiesRest ==
  \A fam \in FamilyTabs :
    \A n \in 1..Len(CandidateStages(fam)) :
      (/\ TabEnabled(Data, fam)
       /\ TabDic(fam) # <<>>
       /\ Recomputed(fam, 1).combo[fam][CandidateStages(fam)[n]].items = <<>>)
      => /\ Recomputed(fam, 1).raised = ""
         /\ \A m \in n..Len(CandidateStages(fam)) :
              Recomputed(fam, 1).combo[fam][CandidateStages(fam)[m]].items = <<>>
         /\ Recomputed(fam, 1).table[fam].rowCount = 0

\* C4: with fewer than two cells selected no multi-compare flag is set.
C4_FewerThanTwoNoMulti ==
  specifiedCellCount < 2 => \A fam \in ComboTabs : ~Multi(fam)

\* C4 witness: exactly one cell is checked and projected, and its tabs were
\* filled without exception.
C4_OneCellSelected ==
  /\ specifiedCellCount = 1
  /\ Cardinality(CheckedCells) = 1
  /\ raised = ""

\* C5: the cells that have an entry in specifiedLibDic and in the three tab
\* dictionaries are exactly the cells whose check box is checked.
C5_ProjectedAreChecked ==
  /\ CellsOf(specifiedLibDic) = CheckedCells
  /\ \A fam \in ComboTabs : CellsOf(TabDic(fam)) = CheckedCells
  /\ specifiedCellCount = Cardinality(CheckedCells)

\* C5 witness: cells of both libraries are loaded, exactly one is checked and
\* projected, and another one is not.
C5_OneOfManyProjected ==
  /\ Len(cellListTree) = 2
  /\ Cardinality(CellsOf(timingTabDic)) = 1
  /\ Cardinality(CheckedCells) = 1

\* the candidates a combo box of the tab would show when they were read from
\* this cell index: the keys at the key path of the stage below the current
\* choices, none when the path does not exist
Candidates(fam, index, stage) ==
  LET At(path) ==
        IF HasPath(index, path)
        THEN {Keys(GetPath(index, path))[i] : i \in 1..Len(Keys(GetPath(index, path)))}
        ELSE {}
      Listed(path) ==
        IF HasPath(index, path)
        THEN {GetPath(index, path)[i] : i \in 1..Len(GetPath(index, path))}
        ELSE {}
      Disc(n) ==
        At(PinPath(Widgets, fam) \o <<fam>> \o HierPath(fam, SelValues(Widgets, fam), n - 1)
             \o <<Discriminators(fam)[n]>>)
  IN IF fam = "leakage_power"
     THEN IF stage = "When" THEN At(<<"leakage_power", "when">>)
          ELSE Listed(<<"leakage_power", "when", Sel(Widgets, fam, "When"), "related_pg_pin">>)
     ELSE IF stage = "Bundle" THEN At(<<"bundle">>)
     ELSE IF stage = "Bus" THEN At(<<"bus">>)
     ELSE IF stage = "Pin"
     THEN At(SubSeq(PinPath(Widgets, fam), 1, Len(PinPath(Widgets, fam)) - 1))
     ELSE IF stage = "TableType"
     THEN At(PinPath(Widgets, fam) \o <<fam>>
               \o HierPath(fam, SelValues(Widgets, fam), Len(DiscStages(fam)))
               \o <<"table_type">>)
     ELSE Disc(CHOOSE n \in 1..Len(DiscStages(fam)) : DiscStages(fam)[n] = stage)

\* the combo boxes whose candidates are keys of the cell index
KeyStages(fam) == Combos(fam) \ {"Index1", "Index2"}

\* C6: while multi-compare mode is on for a family, at every stage the
\* candidates read from any selected cell's index at the current key path are
\* the candidates read from the first selected cell's index.
C6_AnyCellSameCandidates ==
  \A fam \in ComboTabs :
    Multi(fam) =>
      \A stage \in KeyStages(fam) :
        \A i \in 1..Len(Indexes(fam)) :
          Candidates(fam, Indexes(fam)[i], stage) = Candidates(fam, Indexes(fam)[1], stage)

RECURSIVE SameKeySets(_, _, _)
\* two indexes have the same keys at every level, in whatever order; names is
\* TRUE at a level whose keys are names of the library (groups, pins, attribute
\* values, table types) and FALSE at a level of fixed keys.  The numbers below
\* index_1 and index_2 are values, not keys.
SameKeySets(a, b, names) ==
  /\ {a[i].k : i \in 1..Len(a)} = {b[i].k : i \in 1..Len(b)}
  /\ \A i \in 1..Len(a) :
       IF names THEN SameKeySets(a[i].v, Get(b, a[i].k), FALSE)
       ELSE IF a[i].k \in {"index_1", "index_2"} THEN TRUE
       ELSE SameKeySets(a[i].v, Get(b, a[i].k), a[i].k \notin FamilyTabs)

\* C7: the flag depends on the key sets only: cells whose indexes have the same
\* scopes, pins, discriminator values and table types, in whatever order the
\* library file lists them, are reported compatible.
C7_SameKeySetsCompatible ==
  \A fam \in FamilyTabs :
    (/\ specifiedCellCount >= 2
     /\ \A i \in 1..Len(Indexes(fam)) : SameKeySets(Indexes(fam)[i], Indexes(fam)[1], FALSE))
    => Multi(fam)

\* the timing arcs of a cell as the library file has them: for every pin that
\* is projected, the discriminator values of every arc with the names of all the
\* table groups of the arc
RawTimingShape(lib, cell) ==
  LET pins == CellPins("timing", Get(Parser(Get(libDic, lib).libraryFile).pin, cell))
      Tables(arc) == {arc["table_type"][t].k : t \in 1..Len(arc["table_type"])}
  IN UNION {{<<pins[p].path, ArcValues("timing", pins[p].arcs[a]), Tables(pins[p].arcs[a])>> :
                a \in 1..Len(pins[p].arcs)} : p \in 1..Len(pins)}

\* the selected cells that have timing arcs
TimedCells == SelectSeq(CellSeq(timingTabDic), LAMBDA c : c.v # <<>>)

\* C8: cells with the same timing structure and different numbers are reported
\* compatible for timing, and a table type that one cell has and another lacks
\* makes them incompatible.
C8_TableTypeSetDecides ==
  (specifiedCellCount >= 2 /\ Len(TimedCells) = specifiedCellCount) =>
    /\ Identical("timing") => timingTabMultiEnable
    /\ timingTabMultiEnable =>
         \A i \in 1..Len(TimedCells) :
           RawTimingShape(TimedCells[i].lib, TimedCells[i].cell)
             = RawTimingShape(TimedCells[1].lib, TimedCells[1].cell)

C10_EmptySelectionEmptyTabs ==
  CheckedCells = {} =>
    /\ \A tab \in ComboTabs : \A stage \in Combos(tab) : combo[tab][stage].items = <<>>
    /\ \A tab \in ComboTabs : table[tab].rowCount = 0
    /\ table["area"].rowCount = 0
    /\ raised = ""

\* C10 witness: the last checked cell has been unchecked (the area figure, unset
\* until the first click, has been drawn).
C10_AllUnchecked ==
  /\ CheckedCells = {}
  /\ cellListTree # <<>>
  /\ figure["area"] # NoFigure

\* the names below a scope path of the first traversed cell's index, none when
\* the path does not exist
NamesAt(d, fam, path) ==
  IF d.tab[fam] # <<>> /\ HasPath(FirstCellDic(d, fam), path)
  THEN {Keys(GetPath(FirstCellDic(d, fam), path))[i] :
          i \in 1..Len(Keys(GetPath(FirstCellDic(d, fam), path)))}
  ELSE {}

\* the items of a combo box as a set
Items(w, tab, stage) == {w.combo[tab][stage].items[i] : i \in 1..Len(w.combo[tab][stage].items)}

\* in widgets w over data d, the pin combo box of the timing tab holds the pins
\* of the group chosen last in the combo box stage (of the scope), the pins of
\* the group of the other scope when that choice is empty, and the direct pins
\* of the cell when both choices are empty
ScopePinsShown(d, w, stage, scope, other, otherScope) ==
  /\ w.raised = ""
  /\ Items(w, "timing", "Pin") =
       IF Sel(w, "timing", stage) # <<>>
       THEN NamesAt(d, "timing", <<scope, Sel(w, "timing", stage), "pin">>)
       ELSE IF Sel(w, "timing", other) # <<>>
       THEN NamesAt(d, "timing", <<otherScope, Sel(w, "timing", other), "pin">>)
       ELSE NamesAt(d, "timing", <<"pin">>)

\* the widgets of the state, with the exception of the state
Shown == [Widgets EXCEPT !.raised = raised]

\* C11: in the timing tab the bundle choice and the bus choice exclude each
\* other: after a bundle is chosen the pins are those of the bundle whatever the
\* bus combo box shows, after a bus is chosen they are those of the bus whatever
\* the bundle combo box shows, and with both empty they are the direct pins.
C11_ScopeChoicesExclusive ==
  [][\A i \in 1..MaxItems :
       /\ ComboActivated("timing", "Bundle", i) =>
            \E d \in {Data'} : \E w \in {Shown'} :
              ScopePinsShown(d, w, "Bundle", "bundle", "Bus", "bus")
       /\ ComboActivated("timing", "Bus", i) =>
            \E d \in {Data'} : \E w \in {Shown'} :
              ScopePinsShown(d, w, "Bus", "bus", "Bundle", "bundle")]_vars

\* the combo boxes of the scopes with the key of the scope in the cell index
ScopeStages == {<<"Bundle", "bundle">>, <<"Bus", "bus">>}

\* C12: the internal power tab is the timing tab without timing_sense and
\* timing_type: when the first cell's indexes of the two families have the same
\* groups in a scope, the combo box of the scope offers the same items in both
\* tabs, the empty choice first.
C12_PowerScopesAsTiming ==
  \A s \in ScopeStages :
    (/\ raised = ""
     /\ TabEnabled(Data, "timing") /\ TabEnabled(Data, "internal_power")
     /\ NamesAt(Data, "timing", <<s[2]>>) # {}
     /\ NamesAt(Data, "internal_power", <<s[2]>>) = NamesAt(Data, "timing", <<s[2]>>))
    => combo["internal_power"][s[1]].items = combo["timing"][s[1]].items

\* the one selected cell's record of specifiedLibDic
SingleCellDic == CellSeq(specifiedLibDic)[1].v

\* the flat arc entries of the chosen pin of the one selected cell
PinArcs(fam) ==
  IF HasPath(SingleCellDic, PinPath(Widgets, fam) \o <<fam>>)
  THEN GetPath(SingleCellDic, PinPath(Widgets, fam) \o <<fam>>)
  ELSE <<>>

\* the tables of the chosen table type of the flat arc entries whose
\* discriminators are the current choices
ChosenTables(fam) ==
  LET arcs == SelectSeq(PinArcs(fam),
                        LAMBDA a : /\ ArcMatches(Widgets, fam, a)
                                   /\ HasKey(Get(a, "table_type"), Sel(Widgets, fam, "TableType")))
  IN {Get(Get(arcs[i], "table_type"), Sel(Widgets, fam, "TableType")) : i \in 1..Len(arcs)}

\* the position an index combo box shows, counted from 0
Position(fam, stage) == TextToInt(Sel(Widgets, fam, stage))

\* the column of a table at a position counted from 0
ColumnOf(t, pos) == AsTuple([r \in 1..Len(t.values) |-> ToFloat(t.values[r][pos + 1])])

\* the figure lists are the slice of the table t that the one set index fixes
IsSlice(fam, fig, t) ==
  IF Sel(Widgets, fam, "Index1") # <<>>
  THEN /\ Position(fam, "Index1") < Len(t.values)
       /\ fig.XList = Floats(t.index_2)
       /\ fig.YList = Floats(t.values[Position(fam, "Index1") + 1])
  ELSE /\ \A r \in 1..Len(t.values) : Position(fam, "Index2") < Len(t.values[r])
       /\ fig.XList = Floats(t.index_1)
       /\ fig.YList = ColumnOf(t, Position(fam, "Index2"))

\* one cell is selected and the current choices of the tab lead to a table
SingleResolves(fam) == specifiedCellCount = 1 /\ ChosenTables(fam) # {}

\* C13: with one cell selected and exactly one index set, the table handler
\* gives a series and its domain of the same length: the row of the chosen
\* index_1 position over index_2, or the column of the chosen index_2 position
\* over index_1, of the table of the flat arc entry with the chosen
\* discriminators.
C13_OneIndexSlice ==
  \A fam \in FamilyTabs :
    (/\ SingleResolves(fam)
     /\ (Sel(Widgets, fam, "Index1") = <<>>) # (Sel(Widgets, fam, "Index2") = <<>>))
    => \E r \in {updateTabTable(Data, Widgets, fam)} :
         /\ r.raised = ""
         /\ Len(r.figure[fam].XList) = Len(r.figure[fam].YList)
         /\ \E t \in ChosenTables(fam) : IsSlice(fam, r.figure[fam], t)

\* the handler's result shows the one value v: as the only plotted value or as
\* the only item of the table
IsScalar(fam, r, v) ==
  \/ r.figure[fam].YList = <<ToFloat(v)>>
  \/ /\ r.table[fam].rowCount = 1 /\ r.table[fam].columnCount = 1
     /\ r.table[fam].item[1][1] = v

\* C14: with one cell selected and both indexes set, the table handler gives
\* one scalar, the value of the table at the chosen row and column.
C14_BothIndexesScalar ==
  \A fam \in FamilyTabs :
    (/\ SingleResolves(fam)
     /\ Sel(Widgets, fam, "Index1") # <<>> /\ Sel(Widgets, fam, "Index2") # <<>>)
    => \E r \in {updateTabTable(Data, Widgets, fam)} :
         /\ r.raised = ""
         /\ \E t \in ChosenTables(fam) :
              /\ Position(fam, "Index1") < Len(t.values)
              /\ Position(fam, "Index2") < Len(t.values[Position(fam, "Index1") + 1])
              /\ IsScalar(fam, r,
                          t.values[Position(fam, "Index1") + 1][Position(fam, "Index2") + 1])

\* the places of an index list that hold the text
PlacesOf(list, text) == {i \in 1..Len(list) : list[i] = text}

\* C15: with one cell selected, an index_1 selector that is an entry of the
\* table's index_1 list, index_2 unset, gives the row of values that belongs to
\* that entry against the index_2 list: for index_1 ("1", "2"), index_2
\* ("0.1", "0.2") and values ("10, 20", "30, 40"), the selector "1" gives
\* (10.0, 20.0) against (0.1, 0.2).
C15_SelectorIsIndexEntry ==
  \A fam \in FamilyTabs :
    (/\ SingleResolves(fam)
     /\ Sel(Widgets, fam, "Index1") # <<>> /\ Sel(Widgets, fam, "Index2") = <<>>)
    => \E r \in {updateTabTable(Data, Widgets, fam)} :
         \A t \in ChosenTables(fam) :
           \A i \in PlacesOf(t.index_1, Sel(Widgets, fam, "Index1")) :
             /\ r.raised = ""
             /\ r.figure[fam].XList = Floats(t.index_2)
             /\ r.figure[fam].YList = Floats(t.values[i])

\* the table of the example: index_1 ("1", "2"), index_2 ("0.1", "0.2"),
\* values ("10, 20", "30, 40")
ExampleTable ==
  [index_1 |-> <<<<"1">>, <<"2">>>>,
   index_2 |-> <<<<"0", ".", "1">>, <<"0", ".", "2">>>>,
   values |-> <<<<<<"1", "0">>, <<"2", "0">>>>, <<<<"3", "0">>, <<"4", "0">>>>>>]

\* C15, amended: with one cell selected and the table of the example chosen,
\* the index combo boxes offer the empty text and the positions "0" and "1",
\* and an index_1 selector with index_2 unset gives the row of values at that
\* position, counted from 0, against the index_2 list: the selector "1" gives
\* (30.0, 40.0) against (0.1, 0.2).
C15_SelectorIsPosition ==
  \A fam \in FamilyTabs :
    (SingleResolves(fam) /\ ExampleTable \in ChosenTables(fam)) =>
      /\ combo[fam]["Index1"].items = <<<<>>, <<"0">>, <<"1">>>>
      /\ combo[fam]["Index2"].items = <<<<>>, <<"0">>, <<"1">>>>
      /\ (Sel(Widgets, fam, "Index1") # <<>> /\ Sel(Widgets, fam, "Index2") = <<>>) =>
           \E r \in {updateTabTable(Data, Widgets, fam)} :
             /\ r.raised = ""
             /\ r.figure[fam].XList = Floats(ExampleTable.index_2)
             /\ r.figure[fam].YList = Floats(ExampleTable.values[Position(fam, "Index1") + 1])

\* C15 witness: the table of the example is shown with the index_1 selector
\* "1", and the plotted row is (30.0, 40.0).
C15_SecondRowPlotted ==
  /\ SingleResolves("timing") /\ ExampleTable \in ChosenTables("timing")
  /\ Sel(Widgets, "timing", "Index1") = <<"1">>
  /\ Sel(Widgets, "timing", "Index2") = <<>>
  /\ figure["timing"].YList = Floats(ExampleTable.values[2])

\* the value the multi-cell table shows for a table at index positions counted
\* from 0; a table without index_2 has one row of values, one per index_1 entry
ValueAt(t, p1, p2) ==
  IF t.index_2 = <<>> THEN t.values[1][p1 + 1] ELSE t.values[p1 + 1][p2 + 1]

\* the position an index combo box of widgets w shows, an unset one read as 0
PositionOr0(w, fam, stage) ==
  IF Sel(w, fam, stage) = <<>> THEN 0 ELSE TextToInt(Sel(w, fam, stage))

\* the tables of the chosen table type of a cell's flat arc entries with the
\* discriminators chosen in widgets w
CellTables(w, fam, lib, cell) ==
  LET cellDic == Get(Get(specifiedLibDic, lib), cell)
      arcs == IF HasPath(cellDic, PinPath(w, fam) \o <<fam>>)
              THEN SelectSeq(GetPath(cellDic, PinPath(w, fam) \o <<fam>>),
                             LAMBDA a : /\ ArcMatches(w, fam, a)
                                        /\ HasKey(Get(a, "table_type"), Sel(w, fam, "TableType")))
              ELSE <<>>
  IN {Get(Get(arcs[i], "table_type"), Sel(w, fam, "TableType")) : i \in 1..Len(arcs)}

\* the multi-cell table of widgets r has one row per selected cell, in the order
\* of the selection, with a value of the cell's own table
OneRowPerCell(fam, r) ==
  /\ r.raised = ""
  /\ r.table[fam].rowCount = specifiedCellCount
  /\ Len(r.figure[fam].YList) = specifiedCellCount
  /\ \A k \in 1..specifiedCellCount :
       /\ r.table[fam].item[k][1] = CellSeq(TabDic(fam))[k].lib
       /\ r.table[fam].item[k][2] = CellSeq(TabDic(fam))[k].cell
       /\ \E t \in CellTables(r, fam, CellSeq(TabDic(fam))[k].lib, CellSeq(TabDic(fam))[k].cell) :
            r.table[fam].item[k][5] =
              ValueAt(t, PositionOr0(r, fam, "Index1"), PositionOr0(r, fam, "Index2"))

\* C16: in multi-compare mode of the timing or internal power tab the table has
\* one row per selected cell, in selection order, whose value is read from the
\* cell's own flat arc entry with the common discriminators and table type at
\* the chosen index positions, an unset index read as position 0.
C16_MultiOneRowPerCell ==
  \A fam \in FamilyTabs :
    (Multi(fam) /\ Identical(fam) /\ Indexes(fam)[1] # <<>>) =>
      \E r \in {updateTabTable(Data, Widgets, fam)} : OneRowPerCell(fam, r)

\* the leakage table of widgets r has one row per selected cell, in the order
\* of the selection, with the value of the cell's entry for the chosen when and
\* related_pg_pin
LeakageRowPerCell(r) ==
  /\ r.raised = ""
  /\ r.table["leakage_power"].rowCount = specifiedCellCount
  /\ \A k \in 1..specifiedCellCount :
       /\ r.table["leakage_power"].item[k][1] = CellSeq(specifiedLibDic)[k].lib
       /\ r.table["leakage_power"].item[k][2] = CellSeq(specifiedLibDic)[k].cell
       /\ \E e \in {Get(CellSeq(specifiedLibDic)[k].v, "leakage_power")[j] :
                      j \in 1..Len(Get(CellSeq(specifiedLibDic)[k].v, "leakage_power"))} :
            /\ e.when = Sel(r, "leakage_power", "When")
            /\ e.related_pg_pin = Sel(r, "leakage_power", "RelatedPgPin")
            /\ r.table["leakage_power"].item[k][5] = e.value

\* the area table of widgets r has one row per selected cell, in the order of
\* the selection, with the area of the cell
AreaRowPerCell(r) ==
  /\ r.raised = ""
  /\ r.table["area"].rowCount = specifiedCellCount
  /\ \A k \in 1..specifiedCellCount :
       /\ r.table["area"].item[k][1] = CellSeq(specifiedLibDic)[k].lib
       /\ r.table["area"].item[k][2] = CellSeq(specifiedLibDic)[k].cell
       /\ r.table["area"].item[k][3] = Get(CellSeq(specifiedLibDic)[k].v, "area")

\* C17: in multi-compare mode of the leakage power tab the pass over the tab
\* gives a table with one row per selected cell, in selection order, whose value
\* is the cell's leakage entry for the chosen when and related_pg_pin; the area
\* table has one row per selected cell in selection order.
C17_LeakageAreaRowPerCell ==
  /\ leakagePowerTabMultiEnable =>
       \E r \in {updateFrom(Data, Widgets, "leakage_power", 1)} : LeakageRowPerCell(r)
  /\ \E r \in {updateAreaTab(Data, Widgets)} : AreaRowPerCell(r)

\* no selected cell has a leakage entry
NoLeakageEntries ==
  \A k \in 1..Len(CellSeq(specifiedLibDic)) :
    Get(CellSeq(specifiedLibDic)[k].v, "leakage_power") = <<>>

\* C18: when the cells compared have no leakage entries at all, the pass over the
\* leakage power tab leaves the when and related_pg_pin combo boxes empty and
\* the table empty, and raises no error.
C18_NoLeakageNoError ==
  (leakagePowerTabMultiEnable /\ NoLeakageEntries) =>
    \E r \in {updateFrom(Data, Widgets, "leakage_power", 1)} :
      /\ r.raised = ""
      /\ r.combo["leakage_power"]["When"].items = <<>>
      /\ r.combo["leakage_power"]["RelatedPgPin"].items = <<>>
      /\ r.figure["leakage_power"].YList = <<>>

\* an attribute of a raw arc as the library file has it, without the quotes,
\* "N/A" when the arc does not have it
RawValue(arcDic, f) == IF f \in DOMAIN arcDic THEN DeQuote(arcDic[f]) ELSE NA

\* the discriminator values of a raw arc
RawTuple(fam, arcDic) ==
  AsTuple([i \in 1..Len(Discriminators(fam)) |-> RawValue(arcDic, Discriminators(fam)[i])])

\* the raw arc lists of the pins of a selected cell, as the parser returns them
RawPins(fam, lib, cell) ==
  CellPins(fam, Get(Parser(Get(libDic, lib).libraryFile).pin, cell))

\* the raw tables of the chosen table type in the raw arcs of the chosen pin of
\* the one selected cell that carry the chosen discriminator values
RawTables(fam) ==
  LET x == CellSeq(specifiedLibDic)[1]
      pins == SelectSeq(RawPins(fam, x.lib, x.cell), LAMBDA p : p.path = PinPath(Widgets, fam))
      arcs == Flatten(AsTuple([i \in 1..Len(pins) |-> pins[i].arcs]))
      chosen == SelectSeq(arcs, LAMBDA a : RawTuple(fam, a) = SelValues(Widgets, fam))
      tables == Flatten(AsTuple([i \in 1..Len(chosen) |->
                   SelectSeq(chosen[i]["table_type"],
                             LAMBDA e : e.k = Sel(Widgets, fam, "TableType"))]))
  IN {tables[i].v : i \in 1..Len(tables)}

\* the items of a table widget are the values of a raw table
ShowsValues(t, tableDic) ==
  \A i \in 1..Len(ParseValues(tableDic)) :
    \A j \in 1..Len(ParseValues(tableDic)[i]) :
      /\ i <= t.rowCount /\ j <= t.columnCount
      /\ t.item[i][j] = ParseValues(tableDic)[i][j]

\* C19: with one cell selected, what the table handler resolves for the
\* discriminator values and the table type reached through the combo boxes is
\* what a direct lookup of these discriminator values in the raw arc list of
\* the pin finds, also when several raw arcs carry the same values.
C19_RoundTrip ==
  \A fam \in FamilyTabs :
    (/\ specifiedCellCount = 1
     /\ Sel(Widgets, fam, "TableType") # <<>>
     /\ Sel(Widgets, fam, "Index1") = <<>> /\ Sel(Widgets, fam, "Index2") = <<>>)
    => \E r \in {updateTabTable(Data, Widgets, fam)} :
         /\ r.raised = ""
         /\ \E tableDic \in RawTables(fam) : ShowsValues(r.table[fam], tableDic)

RECURSIVE KeyPaths(_, _, _, _)
\* the key paths of k discriminator values that exist in a pin index below the
\* n-th discriminator
KeyPaths(fam, dic, n, k) ==
  IF k = 0 THEN {<<>>}
  ELSE IF ~HasKey(dic, Discriminators(fam)[n]) THEN {}
  ELSE UNION {{<<Get(dic, Discriminators(fam)[n])[i].k>> \o rest :
                 rest \in KeyPaths(fam, Get(dic, Discriminators(fam)[n])[i].v, n + 1, k - 1)} :
              i \in 1..Len(Get(dic, Discriminators(fam)[n]))}

\* the index of a pin of a selected cell in the tab dictionary of the family
PinIndex(fam, cellIndex, path) ==
  IF HasPath(cellIndex, path \o <<fam>>) THEN GetPath(cellIndex, path \o <<fam>>) ELSE <<>>

\* C20: after every selection change, for every selected cell and pin, a key
\* path of discriminator values exists in the index of the pin exactly when a
\* raw arc of the pin has these values, an absent attribute read as "N/A".
C20_KeyPathIffArc ==
  \A fam \in FamilyTabs :
    \A c \in 1..Len(CellSeq(TabDic(fam))) :
      \A p \in 1..Len(RawPins(fam, CellSeq(TabDic(fam))[c].lib, CellSeq(TabDic(fam))[c].cell)) :
        \A k \in 1..Len(Discriminators(fam)) :
          \E pin \in {RawPins(fam, CellSeq(TabDic(fam))[c].lib, CellSeq(TabDic(fam))[c].cell)[p]} :
            KeyPaths(fam, PinIndex(fam, CellSeq(TabDic(fam))[c].v, pin.path), 1, k)
              = {SubSeq(RawTuple(fam, pin.arcs[a]), 1, k) : a \in 1..Len(pin.arcs)}

\* C20 witness: a selected cell has a pin whose raw arcs carry two different
\* combinations of discriminator values, with attributes that are absent.
C20_TwoTuplesIndexed ==
  /\ specifiedCellCount >= 1
  /\ \E c \in 1..Len(CellSeq(timingTabDic)) :
       \E p \in 1..Len(RawPins("timing", CellSeq(timingTabDic)[c].lib, CellSeq(timingTabDic)[c].cell)) :
         \E pin \in {RawPins("timing", CellSeq(timingTabDic)[c].lib, CellSeq(timingTabDic)[c].cell)[p]} :
           /\ Cardinality(KeyPaths("timing", PinIndex("timing", CellSeq(timingTabDic)[c].v, pin.path),
                                   1, Len(Discriminators("timing")))) >= 2
           /\ \E a \in 1..Len(pin.arcs) : "timing_sense" \notin DOMAIN pin.arcs[a]

-----------------------------------------------------------------------------
(* Sequences of library loads *)

\* the files the user loads in the load sequences
LoadFiles == LibraryFiles \cup {LibEPath, LibNPath, LibMPath}

\* File > Load with one of these files
LoadFile == \E libraryFile \in LoadFiles : LoadLibFile(libraryFile)

LoadNext == LoadFile

LoadSpec == Init /\ [][LoadNext]_vars

\* the base file name of a path: its longest suffix without "/"
FileName(path) ==
  LET Suffixes == {SubSeq(path, i, Len(path)) : i \in 1..(Len(path) + 1)}
      Plain == {s \in Suffixes : \A j \in 1..Len(s) : s[j] # "/"}
  IN CHOOSE s \in Plain : \A t \in Plain : Len(t) <= Len(s)

\* the files the catalog was loaded from, in load order
LoadedFiles == AsTuple([i \in 1..Len(libDic) |-> libDic[i].v.libraryFile])

\* a library with the base file name of the file is in the catalog
InCatalog(libraryFile) ==
  \E i \in 1..Len(LoadedFiles) : FileName(LoadedFiles[i]) = FileName(libraryFile)

\* C21: loading a file whose base file name is that of a library of the catalog
\* changes neither the catalog (keys, files, cell lists, their order) nor the
\* three reference units nor the cell tree, and ends without exception (the
\* duplicate is reported by a warning), after any sequence of loads.
C21_DuplicateLoadNoChange ==
  [][\A libraryFile \in LoadFiles :
       (InCatalog(libraryFile) /\ LoadLibFile(libraryFile))
       => /\ libDic' = libDic
          /\ timingUnit' = timingUnit
          /\ leakagePowerUnit' = leakagePowerUnit
          /\ internalPowerUnit' = internalPowerUnit
          /\ cellListTree' = cellListTree
          /\ raised' = ""]_vars

\* C21 witness: the catalog holds a.lib and another library, and a.lib was
\* loaded from one directory while the user can load a.lib of another directory
\* with other cells and units.
C21_SameNameOtherFile ==
  /\ Len(libDic) >= 2
  /\ \E libraryFile \in LoadFiles :
       /\ InCatalog(libraryFile)
       /\ \A i \in 1..Len(LoadedFiles) : LoadedFiles[i] # libraryFile
       /\ ENABLED LoadLibFile(libraryFile)

\* the unit of a quantity a library file reports, without quotes and digits,
\* empty when it reports none
Reported(libraryFile, quantity) ==
  IF quantity \in DOMAIN Parser(libraryFile).unit
  THEN UnitName(Parser(libraryFile).unit[quantity])
  ELSE <<>>

\* the unit of the first library in load order that reports the quantity
FirstReported(quantity) ==
  LET reporting == SelectSeq(LoadedFiles, LAMBDA f : Reported(f, quantity) # <<>>)
  IN IF reporting = <<>> THEN <<>> ELSE Reported(reporting[1], quantity)

\* a load of a file whose base file name is not in the catalog adds the library
\* at the end of the catalog with its cell list, whatever units it reports, and
\* a reference unit that is set stays as it is
LoadAdds(libraryFile) ==
  /\ Len(libDic') = Len(libDic) + 1
  /\ SubSeq(libDic', 1, Len(libDic)) = libDic
  /\ libDic'[Len(libDic')].k = FileName(libraryFile)
  /\ libDic'[Len(libDic')].v.cellList = Parser(libraryFile).cellList
  /\ timingUnit # <<>> => timingUnit' = timingUnit
  /\ leakagePowerUnit # <<>> => leakagePowerUnit' = leakagePowerUnit

\* the reference units are those of the first library in load order that
\* reports the quantity
UnitsOfFirstReporting ==
  /\ timingUnit = FirstReported("time_unit")
  /\ leakagePowerUnit = FirstReported("leakage_power_unit")
  /\ internalPowerUnit = leakagePowerUnit

\* C22 (as amended): after any sequence of loads, the reference time unit and
\* leakage power unit are those of the first library in load order that reports
\* the quantity (a library may report none); a later library that reports
\* another unit is still added to the catalog with its cell list, and the
\* reference units do not change.
C22_FirstReportedUnitKept ==
  /\ []UnitsOfFirstReporting
  /\ [][\A libraryFile \in LoadFiles :
          (~InCatalog(libraryFile) /\ LoadLibFile(libraryFile)) => LoadAdds(libraryFile)]_vars

\* C22 witness: the first library reports no leakage power unit, and a later
\* library of the catalog reports another time unit than the reference.
C22_LaterUnitsDiffer ==
  /\ Len(libDic) >= 2
  /\ Reported(LoadedFiles[1], "leakage_power_unit") = <<>>
  /\ leakagePowerUnit # <<>>
  /\ \E i \in 2..Len(LoadedFiles) :
       Reported(LoadedFiles[i], "time_unit") \notin {<<>>, timingUnit}

\* C22 as stated: the reference units are those the first-loaded library
\* reports.
C22_FirstLoadedUnitKept ==
  libDic # <<>> =>
    /\ timingUnit = Reported(LoadedFiles[1], "time_unit")
    /\ leakagePowerUnit = Reported(LoadedFiles[1], "leakage_power_unit")

-----------------------------------------------------------------------------
(* The selection *)

\* specifiedCellCount is the number of (library, cell) pairs of the selection,
\* which are the checked cell items
CountsSelection ==
  /\ specifiedCellCount = Cardinality(CellsOf(specifiedLibDic))
  /\ specifiedCellCount >= 0
  /\ CellsOf(specifiedLibDic) = CheckedCells

\* C23: after any sequence of clicks that check or uncheck cell items,
\* specifiedCellCount is the number of (library, cell) pairs in the selection
\* and is not negative; a step that leaves every check box as it is (a click on
\* an unchecked cell that does not check it, a choice in a combo box) changes
\* neither the pairs of the selection nor the count.
C23_CountIsSelectionSize ==
  /\ []CountsSelection
  /\ [][cellListTree' = cellListTree =>
          /\ CellSeq(specifiedLibDic') = CellSeq(specifiedLibDic)
          /\ specifiedCellCount' = specifiedCellCount]_vars

\* C23 witness: two cells of two libraries are selected while other cell items
\* of both libraries are unchecked.
C23_TwoOfTwoLibraries ==
  /\ specifiedCellCount = 2
  /\ Len(specifiedLibDic) = 2
  /\ \A l \in 1..Len(cellListTree) : \E c \in 1..Len(cellListTree[l].cells) :
        ~cellListTree[l].cells[c].checked

-----------------------------------------------------------------------------
(* sortCellWithSize on the cell list of one library *)

\* the bound on the length of a cell list
MaxCells == 3

\* cell names: a series of three drive strengths (D2 and D02 are the same
\* size), a series of one, two names with another tail than BWP, a series
\* whose head begins with zzzz, and a name without drive strength
SortNames ==
  {<<"A", "D", "2", "B", "W", "P">>, <<"A", "D", "1", "0", "B", "W", "P">>,
   <<"A", "D", "0", "2", "B", "W", "P">>, <<"B", "D", "1", "B", "W", "P">>,
   <<"N", "D", "2", "X">>, <<"N", "D", "1", "0", "X">>,
   <<"z", "z", "z", "z", "D", "1", "B", "W", "P">>,
   <<"z", "z", "z", "z", "D", "2", "B", "W", "P">>,
   <<"E">>}

\* the cell lists of different names
SortInputs ==
  UNION {{cells \in [1..n -> SortNames] : \A i, j \in 1..n : cells[i] = cells[j] => i = j} :
         n \in 1..MaxCells}

SortLibPath == <<"s", ".", "l", "i", "b">>

\* loadLibFile has put a library with some cell list into the catalog and has
\* not yet called updateCellListTree
SortInitWith(inputs) ==
  /\ hashOrder \in HashOrders
  /\ \E cells \in inputs :
       libDic = <<[k |-> SortLibPath, v |-> [libraryFile |-> SortLibPath, cellList |-> cells]]>>
  /\ leakagePowerUnit = <<>>
  /\ timingUnit = <<>>
  /\ internalPowerUnit = <<>>
  /\ cellListTree = <<>>
  /\ specifiedLibDic = <<>>
  /\ specifiedCellCount = 0
  /\ leakagePowerTabDic = <<>>
  /\ timingTabDic = <<>>
  /\ internalPowerTabDic = <<>>
  /\ leakagePowerTabMultiEnable = FALSE
  /\ timingTabMultiEnable = FALSE
  /\ internalPowerTabMultiEnable = FALSE
  /\ libLine = <<>>
  /\ cellLine = <<>>
  /\ combo = [tab \in ComboTabs |-> [stage \in Combos(tab) |-> EmptyCombo]]
  /\ table = [area |-> EmptyTable(3, AreaTableLabels),
              leakage_power |-> EmptyTable(5, LeakageTableLabels),
              timing |-> EmptyTable(0, <<>>),
              internal_power |-> EmptyTable(0, <<>>)]
  /\ figure = [area |-> NoFigure, leakage_power |-> NoFigure,
               timing |-> NoFigure, internal_power |-> NoFigure]
  /\ raised = ""

SortInit == SortInitWith(SortInputs)

\* the call of updateCellListTree that ends loadLibFile
UpdateCellListTree ==
  /\ cellListTree = <<>>
  /\ cellListTree' = updateCellListTree(libDic, specifiedLibDic)
  /\ UNCHANGED <<hashOrder, libDic, leakagePowerUnit, timingUnit, internalPowerUnit,
                 specifiedLibDic, specifiedCellCount, leakagePowerTabDic, timingTabDic,
                 internalPowerTabDic, leakagePowerTabMultiEnable, timingTabMultiEnable,
                 internalPowerTabMultiEnable, libLine, cellLine, combo, table, figure, raised>>

SortNext == UpdateCellListTree

SortSpec == SortInit /\ [][SortNext]_vars

\* the tree shows the sorted cell list
Sorted == cellListTree # <<>>

\* origCellList and the list sortCellWithSize returned for it
OrigCellList == libDic[1].v.cellList

SortedCellList ==
  AsTuple([c \in 1..Len(cellListTree[1].cells) |-> cellListTree[1].cells[c].name])

\* the form <head>D<digits><tail>: the positions of a D after a head and in
\* front of a digit, the first of which splits the name
FormSplits(s) == {p \in 2..(Len(s) - 1) : s[p] = "D" /\ IsDigit(s[p + 1])}

HasForm(s) == FormSplits(s) # {}

FormSplit(s) == CHOOSE p \in FormSplits(s) : \A q \in FormSplits(s) : p <= q

FormHead(s) == SubSeq(s, 1, FormSplit(s) - 1)

FormSize(s) == DigitsToInt(SubSeq(s, FormSplit(s) + 1, DigitRunEnd(s, FormSplit(s) + 1)))

FormTail(s) == SubSeq(s, DigitRunEnd(s, FormSplit(s) + 1) + 1, Len(s))

\* two names of the form with the same head and tail
SameSeries(s, t) ==
  HasForm(s) /\ HasForm(t) /\ FormHead(s) = FormHead(t) /\ FormTail(s) = FormTail(t)

\* the (head, tail) key of s is before the one of t
KeyBefore(s, t) ==
  \/ TextLess(FormHead(s), FormHead(t))
  \/ FormHead(s) = FormHead(t) /\ TextLess(FormTail(s), FormTail(t))

\* the name belongs to a series of two or more names of the list
InSeries(list, s) == \E k \in 1..Len(list) : list[k] # s /\ SameSeries(list[k], s)

\* C24: in the list sortCellWithSize returns, the names of the form
\* <head>D<digits><tail> with the same head and tail stand together, in
\* ascending order of the number <digits> (D2 before D10), and the series of two
\* or more names stand in the order of their (head, tail) keys.
C24_SeriesBySize ==
  Sorted =>
    \A i, j \in 1..Len(SortedCellList) :
      i < j =>
        /\ SameSeries(SortedCellList[i], SortedCellList[j]) =>
             /\ \A k \in i..j : SameSeries(SortedCellList[i], SortedCellList[k])
             /\ FormSize(SortedCellList[i]) <= FormSize(SortedCellList[j])
        /\ (/\ InSeries(SortedCellList, SortedCellList[i])
            /\ InSeries(SortedCellList, SortedCellList[j])
            /\ ~SameSeries(SortedCellList[i], SortedCellList[j]))
           => KeyBefore(SortedCellList[i], SortedCellList[j])

\* the names of the list that the pattern of the program does not match, and
\* those that are the one name of their series
CatchAll(list) ==
  {list[i] : i \in {k \in 1..Len(list) :
     \/ ~SeriesMatches(list[k])
     \/ \A m \in 1..Len(list) :
          (SeriesMatches(list[m]) /\ SeriesKey(list[m]) = SeriesKey(list[k])) => list[m] = list[k]}}

\* C25: in the list sortCellWithSize returns, the names the series pattern of
\* the program does not match and the names that are alone in their series
\* stand after every name of a series of two or more, in ascending text order.
C25_CatchAllLast ==
  Sorted =>
    \A i, j \in 1..Len(SortedCellList) :
      i < j =>
        /\ SortedCellList[i] \in CatchAll(OrigCellList) =>
             SortedCellList[j] \in CatchAll(OrigCellList)
        /\ (SortedCellList[i] \in CatchAll(OrigCellList)
            /\ SortedCellList[j] \in CatchAll(OrigCellList))
           => ~TextLess(SortedCellList[j], SortedCellList[i])

\* C26: sortCellWithSize returns the same list when it is called again on the
\* same cell list, and it returns its own result unchanged.
C26_SortIdempotent ==
  Sorted =>
    /\ sortCellWithSize(OrigCellList) = SortedCellList
    /\ sortCellWithSize(SortedCellList) = SortedCellList

\* C26 witness: the cell list was reordered, and it holds two names of one
\* series with the same size, which the sort leaves in their order.
C26_ReorderedWithTie ==
  /\ Sorted
  /\ SortedCellList # OrigCellList
  /\ \E i, j \in 1..Len(SortedCellList) :
       /\ i < j
       /\ SeriesMatches(SortedCellList[i]) /\ SeriesMatches(SortedCellList[j])
       /\ SeriesKey(SortedCellList[i]) = SeriesKey(SortedCellList[j])
       /\ SeriesSize(SortedCellList[i]) = SeriesSize(SortedCellList[j])

-----------------------------------------------------------------------------
(* The arc lists of the pins of the selected cells, against the parsed library *)

\* the entries of one family that a raw pin or a raw bundle / bus declares
RawEntries(fam, dic) == IF fam \in DOMAIN dic THEN dic[fam] ELSE <<>>

\* the pins of a selected cell as the parser returns them: the place of each in
\* the cell, its own entries and the entries of the bundle or bus above it
RawPlaces(fam, lib, cell) ==
  LET raw == Get(Parser(Get(libDic, lib).libraryFile).pin, cell)
      OfGroup(scope, g) ==
        LET pins == IF "pin" \in DOMAIN g.v THEN g.v["pin"] ELSE <<>>
        IN {[path |-> <<scope, g.k, "pin", pins[i].k>>,
             own |-> RawEntries(fam, pins[i].v),
             above |-> RawEntries(fam, g.v)] : i \in 1..Len(pins)}
      OfScope(s) ==
        IF s.k \in {"bundle", "bus"}
        THEN UNION {OfGroup(s.k, s.v[g]) : g \in 1..Len(s.v)}
        ELSE IF s.k = "pin"
        THEN {[path |-> <<"pin", s.v[i].k>>, own |-> RawEntries(fam, s.v[i].v),
               above |-> <<>>] : i \in 1..Len(s.v)}
        ELSE {}
  IN UNION {OfScope(raw[s]) : s \in 1..Len(raw)}

\* the flat arc list of a pin of a selected cell, empty when there is none
FlatArcs(fam, cellDic, path) ==
  IF HasPath(cellDic, path \o <<fam>>) THEN GetPath(cellDic, path \o <<fam>>) ELSE <<>>

\* the flat arc list is the projection, entry by entry, of the raw entries
ProjectionOf(fam, flat, entries) ==
  /\ Len(flat) = Len(entries)
  /\ \A i \in 1..Len(entries) :
       \A d \in 1..Len(Discriminators(fam)) :
         /\ HasKey(flat[i], Discriminators(fam)[d])
         /\ Get(flat[i], Discriminators(fam)[d]) = RawValue(entries[i], Discriminators(fam)[d])

\* C27: for every pin of a selected cell, the flat arc list of a family is the
\* projection of the pin's own raw entries followed by the entries its bundle or
\* bus declares (a pin without own entries has the entries of the bundle or bus
\* alone), and a direct pin has its own entries only.
C27_GroupEntriesInherited ==
    \A x \in {CellSeq(specifiedLibDic)[i] : i \in 1..Len(CellSeq(specifiedLibDic))} :
      \A fam \in {"timing", "internal_power"} :
        \A p \in RawPlaces(fam, x.lib, x.cell) :
          /\ ProjectionOf(fam, FlatArcs(fam, x.v, p.path), p.own \o p.above)
          /\ Len(p.path) = 2 => p.above = <<>>

\* C27 witness: a selected cell has, under one bundle that declares timing
\* entries, a pin with timing entries of its own and a pin without any, and both
\* have a flat timing list.
C27_BundleWithBothPins ==
  /\ raised = ""
  /\ \E i \in 1..Len(CellSeq(specifiedLibDic)) :
       \E p, q \in RawPlaces("timing", CellSeq(specifiedLibDic)[i].lib,
                             CellSeq(specifiedLibDic)[i].cell) :
         /\ p.path[1] = "bundle" /\ q.path[1] = "bundle" /\ p.path[2] = q.path[2]
         /\ p.above # <<>> /\ p.own # <<>> /\ q.own = <<>>
         /\ Len(FlatArcs("timing", CellSeq(specifiedLibDic)[i].v, p.path))
              = Len(p.own) + Len(p.above)
         /\ Len(FlatArcs("timing", CellSeq(specifiedLibDic)[i].v, q.path)) = Len(q.above)

-----------------------------------------------------------------------------
(* Absent discriminators and choices that match no arc *)

\* the discriminators of a family up to the d-th, as the flat record has them
FlatTuple(fam, arc, d) ==
  AsTuple([i \in 1..d |-> Get(arc, Discriminators(fam)[i])])

\* a discriminator that a raw arc of a selected cell does not have is "N/A" in
\* the flat record of the arc and a key "N/A" of the index of the pin
AbsentArcFieldIsNA ==
  \A x \in {CellSeq(specifiedLibDic)[i] : i \in 1..Len(CellSeq(specifiedLibDic))} :
    \A fam \in FamilyTabs :
      \A p \in RawPlaces(fam, x.lib, x.cell) :
        \A i \in 1..Len(p.own \o p.above) :
          \A d \in 1..Len(Discriminators(fam)) :
            Discriminators(fam)[d] \notin DOMAIN (p.own \o p.above)[i] =>
              /\ Len(FlatArcs(fam, x.v, p.path)) >= i
              /\ Get(FlatArcs(fam, x.v, p.path)[i], Discriminators(fam)[d]) = NA
              /\ HasPath(TabDic(fam),
                         <<x.lib, x.cell>> \o p.path \o <<fam>>
                           \o HierPath(fam, FlatTuple(fam, FlatArcs(fam, x.v, p.path)[i], d), d))

\* when or related_pg_pin that a raw leakage entry of a selected cell does not
\* have is "N/A" in the flat record and, with two or more cells selected, in the
\* index of the cell
AbsentLeakageFieldIsNA ==
  \A x \in {CellSeq(specifiedLibDic)[i] : i \in 1..Len(CellSeq(specifiedLibDic))} :
    \A i \in 1..Len(Get(Parser(Get(libDic, x.lib).libraryFile).leakage, x.cell)) :
      \E e \in {Get(Parser(Get(libDic, x.lib).libraryFile).leakage, x.cell)[i]} :
        \E flat \in {Get(x.v, "leakage_power")} :
          \E index \in {GetPath(leakagePowerTabDic, <<x.lib, x.cell, "leakage_power">>)} :
            /\ Len(flat) >= i
            /\ "when" \notin DOMAIN e =>
                 /\ flat[i].when = NA
                 /\ specifiedCellCount >= 2 => HasPath(index, <<"when", NA>>)
            /\ "related_pg_pin" \notin DOMAIN e =>
                 /\ flat[i].related_pg_pin = NA
                 /\ specifiedCellCount >= 2 =>
                      /\ HasPath(index, <<"when", flat[i].when, "related_pg_pin">>)
                      /\ \E k \in 1..Len(GetPath(index, <<"when", flat[i].when, "related_pg_pin">>)) :
                           GetPath(index, <<"when", flat[i].when, "related_pg_pin">>)[k] = NA

\* with one cell selected, the choices the pass over the stages of a family
\* ends with match no arc of the flat list of the chosen pin
NoArcChosen(w, fam) ==
  \E x \in {CellSeq(specifiedLibDic)[1]} :
    \A i \in 1..Len(FlatArcs(fam, x.v, PinPath(w, fam))) :
      ~ArcMatches(w, fam, FlatArcs(fam, x.v, PinPath(w, fam))[i])

\* C28: a discriminator absent from a raw arc or leakage entry is "N/A" in the
\* flat record and in the index; and with one cell selected, when the choices of
\* a family match no arc of the flat list, the pass ends without exception with
\* an empty table and no figure data.
C28_AbsentIsNA_NoMatchIsEmpty ==
  /\ AbsentArcFieldIsNA
  /\ AbsentLeakageFieldIsNA
  /\ \A fam \in FamilyTabs :
       (specifiedCellCount = 1 /\ Len(CellSeq(specifiedLibDic)) = 1) =>
         \E r \in {Recomputed(fam, 1)} :
           NoArcChosen(r, fam) =>
             /\ r.raised = ""
             /\ r.table[fam].rowCount = 0
             /\ r.table[fam].columnCount = 0
             /\ r.figure[fam] = EmptyFigure

-----------------------------------------------------------------------------
(* The leakage power of the selected cells, against the parsed library *)

\* the raw leakage entries of a cell of a loaded library
RawLeakage(lib, cell) == Get(Parser(Get(libDic, lib).libraryFile).leakage, cell)

\* the flat leakage list has one record per raw entry, in the order of the
\* entries
LeakageListOf(flat, entries) ==
  /\ Len(flat) = Len(entries)
  /\ \A i \in 1..Len(entries) :
       flat[i] = [value |-> RawValue(entries[i], "value"),
                  when |-> RawValue(entries[i], "when"),
                  related_pg_pin |-> RawValue(entries[i], "related_pg_pin")]

\* the leakage index has the when conditions of the entries and under each the
\* pg pins of the entries with that condition
LeakageIndexOf(index, entries) ==
  LET whens == {RawValue(entries[i], "when") : i \in 1..Len(entries)}
      PgPins(when) == {RawValue(entries[i], "related_pg_pin") :
                         i \in {j \in 1..Len(entries) : RawValue(entries[j], "when") = when}}
      Listed(pgList) == {pgList[k] : k \in 1..Len(pgList)}
  IN IF entries = <<>>
     THEN index = <<>>
     ELSE /\ Keys(index) = <<"when">>
          /\ {Get(index, "when")[k].k : k \in 1..Len(Get(index, "when"))} = whens
          /\ Len(Get(index, "when")) = Cardinality(whens)
          /\ \A when \in whens :
               /\ Keys(GetPath(index, <<"when", when>>)) = <<"related_pg_pin">>
               /\ Listed(GetPath(index, <<"when", when, "related_pg_pin">>)) = PgPins(when)

\* C29: the flat leakage list of every selected cell has one record per raw
\* entry in source order; the leakage index of the cell is empty with fewer than
\* two cells selected, and with two or more it has the when conditions of the
\* entries and under each exactly the pg pins observed under it.
C29_LeakageProjection ==
  \A x \in {CellSeq(specifiedLibDic)[i] : i \in 1..Len(CellSeq(specifiedLibDic))} :
    /\ LeakageListOf(Get(x.v, "leakage_power"), RawLeakage(x.lib, x.cell))
    /\ HasPath(leakagePowerTabDic, <<x.lib, x.cell, "leakage_power">>)
    /\ IF specifiedCellCount >= 2
       THEN LeakageIndexOf(GetPath(leakagePowerTabDic, <<x.lib, x.cell, "leakage_power">>),
                           RawLeakage(x.lib, x.cell))
       ELSE GetPath(leakagePowerTabDic, <<x.lib, x.cell, "leakage_power">>) = <<>>

\* C29 witness: two cells are selected and one of them has two leakage entries
\* with different when conditions, both in its index.
C29_TwoCellsTwoConditions ==
  /\ specifiedCellCount = 2
  /\ \E i \in 1..Len(CellSeq(specifiedLibDic)) :
       \E x \in {CellSeq(specifiedLibDic)[i]} :
         /\ Len(RawLeakage(x.lib, x.cell)) = 2
         /\ Len(Get(x.v, "leakage_power")) = 2
         /\ Get(x.v, "leakage_power")[1].when # Get(x.v, "leakage_power")[2].when
         /\ Len(GetPath(leakagePowerTabDic, <<x.lib, x.cell, "leakage_power", "when">>)) = 2

-----------------------------------------------------------------------------
(* The table types of the timing arcs of the selected cells *)

\* the six table types of a timing arc
BaseTableTypes ==
  {<<"c","e","l","l","_","r","i","s","e">>,
   <<"c","e","l","l","_","f","a","l","l">>,
   <<"r","i","s","e","_","t","r","a","n","s","i","t","i","o","n">>,
   <<"f","a","l","l","_","t","r","a","n","s","i","t","i","o","n">>,
   <<"r","i","s","e","_","c","o","n","s","t","r","a","i","n","t">>,
   <<"f","a","l","l","_","c","o","n","s","t","r","a","i","n","t">>}

OcvSigmaPrefix == <<"o","c","v","_","s","i","g","m","a","_">>

\* the six table types and the ocv_sigma_ variant of each
NamedTableTypes == BaseTableTypes \cup {OcvSigmaPrefix \o t : t \in BaseTableTypes}

\* C30: a table block of a raw timing arc of a selected cell is in the flat
\* record of the arc and in the index of the pin exactly when its name is one of
\* the six table types or the ocv_sigma_ variant of one of them.
C30_NamedTableTypesRecorded ==
  \A x \in {CellSeq(specifiedLibDic)[i] : i \in 1..Len(CellSeq(specifiedLibDic))} :
    \A p \in RawPlaces("timing", x.lib, x.cell) :
      \A i \in 1..Len(p.own \o p.above) :
        \A k \in 1..Len((p.own \o p.above)[i]["table_type"]) :
          \E t \in {(p.own \o p.above)[i]["table_type"][k].k} :
            \E flat \in {FlatArcs("timing", x.v, p.path)} :
              /\ Len(flat) >= i
              /\ HasKey(Get(flat[i], "table_type"), t) <=> t \in NamedTableTypes
              /\ HasPath(timingTabDic,
                         <<x.lib, x.cell>> \o p.path \o <<"timing">>
                           \o HierPath("timing", FlatTuple("timing", flat[i], 5), 5)
                           \o <<"table_type", t>>)
                   <=> t \in NamedTableTypes

-----------------------------------------------------------------------------
(* The order of the selection and of the rows of the tabs *)

\* the library items of the cell tree, in the order of the tree
TreeLibs == AsTuple([l \in 1..Len(cellListTree) |-> cellListTree[l].lib])

\* the checked cell items in the order a traversal of the tree meets them
CheckedInTreeOrder == SelectSeq(TreeItems(cellListTree), LAMBDA x : x.checked)

\* the place of a cell item in the traversal of the tree
TreePlace(lib, cell) ==
  CHOOSE i \in 1..Len(TreeItems(cellListTree)) :
    TreeItems(cellListTree)[i].lib = lib /\ TreeItems(cellListTree)[i].cell = cell

\* the rows of a table that name a library and a cell name cell items of the
\* tree, in the order of the tree
RowsInTreeOrder(t) ==
  \A r1, r2 \in 1..t.rowCount :
    (r1 < r2 /\ t.item[r1][1] # NoItem /\ t.item[r2][1] # NoItem) =>
      /\ \E i \in 1..Len(TreeItems(cellListTree)) :
           /\ TreeItems(cellListTree)[i].lib = t.item[r1][1]
           /\ TreeItems(cellListTree)[i].cell = t.item[r1][2]
      /\ \E i \in 1..Len(TreeItems(cellListTree)) :
           /\ TreeItems(cellListTree)[i].lib = t.item[r2][1]
           /\ TreeItems(cellListTree)[i].cell = t.item[r2][2]
      /\ TreePlace(t.item[r1][1], t.item[r1][2]) <= TreePlace(t.item[r2][1], t.item[r2][2])

\* the libraries of the tree stand in load order, the selection is the checked
\* cell items in the order of the tree, and the rows of the tabs follow it
SelectionInTreeOrder ==
  /\ TreeLibs = Keys(libDic)
  /\ Len(CellSeq(specifiedLibDic)) = Len(CheckedInTreeOrder)
  /\ \A i \in 1..Len(CheckedInTreeOrder) :
       /\ CellSeq(specifiedLibDic)[i].lib = CheckedInTreeOrder[i].lib
       /\ CellSeq(specifiedLibDic)[i].cell = CheckedInTreeOrder[i].cell
  /\ table["area"].rowCount = Len(CheckedInTreeOrder)
  /\ \A i \in 1..Len(CheckedInTreeOrder) :
       /\ table["area"].item[i][1] = CheckedInTreeOrder[i].lib
       /\ table["area"].item[i][2] = CheckedInTreeOrder[i].cell
  /\ RowsInTreeOrder(table["leakage_power"])
  /\ \A fam \in FamilyTabs :
       table[fam].hHeader = MultiTableLabels => RowsInTreeOrder(table[fam])

\* C31: the libraries of the selection stand in load order (a load puts the new
\* library after the loaded ones) and its cells in the order a traversal of the
\* cell tree meets the checked items; the rows of every tab follow this order,
\* whatever the order in which the cells were checked.
C31_SelectionOrder ==
  /\ []SelectionInTreeOrder
  /\ [][\/ Keys(libDic') = Keys(libDic)
        \/ /\ Len(libDic') = Len(libDic) + 1
           /\ SubSeq(Keys(libDic'), 1, Len(libDic)) = Keys(libDic)]_vars

\* C31 witness: b.lib was loaded before a.lib and a cell of each is selected;
\* the area table and the leakage table list the cell of b.lib first.
C31_SecondLoadedListedSecond ==
  /\ Keys(libDic) = <<Basename(LibBPath), Basename(LibAPath)>>
  /\ specifiedCellCount = 2
  /\ Keys(specifiedLibDic) = Keys(libDic)
  /\ table["area"].item[1][1] = Basename(LibBPath)
  /\ table["area"].item[2][1] = Basename(LibAPath)
  /\ table["leakage_power"].rowCount >= 2
  /\ table["leakage_power"].item[1][1] = Basename(LibBPath)
  /\ raised = ""

-----------------------------------------------------------------------------
(* Multi-compare mode on tables without index_2 *)

\* the widgets with item i of the index_1 combo box of a family chosen
WithIndex1(w, fam, i) == [w EXCEPT !.combo[fam]["Index1"].cur = i]

\* C32: in multi-compare mode of the timing or internal power tab, for a chosen
\* table without index_2 and every position p the index_1 combo box offers, the
\* table update ends without exception and the value of each cell's row is the
\* p-th value of the one row of values of the cell's table.
C32_OneRowTableValue ==
  \A fam \in FamilyTabs :
    (Multi(fam) /\ Identical(fam) /\ Indexes(fam)[1] # <<>>) =>
      \A i \in 1..Len(combo[fam]["Index1"].items) :
        combo[fam]["Index1"].items[i] # <<>> =>
          \E r \in {updateTabTable(Data, WithIndex1(Widgets, fam, i), fam)} :
            \A k \in 1..specifiedCellCount :
              \A t \in CellTables(WithIndex1(Widgets, fam, i), fam,
                                  CellSeq(TabDic(fam))[k].lib, CellSeq(TabDic(fam))[k].cell) :
                t.index_2 = <<>> =>
                  /\ r.raised = ""
                  /\ r.table[fam].item[k][5]
                       = t.values[1][TextToInt(combo[fam]["Index1"].items[i]) + 1]

-----------------------------------------------------------------------------
(* Projection passes over a parser that keeps its pin tree *)

(* getLibPinInfo may build the tree it returns on every call, as in Spec, or  *)
(* return the one tree the parser object keeps.  getTimingInfo and             *)
(* getInternalPowerInfo take the arc list of a pin out of the tree and extend  *)
(* that list with the arcs of the bundle or bus; with a kept tree the next     *)
(* pass reads the extended list.  Here libDic[lib].parser is the parser object *)
(* with its tree.                                                              *)

\* the bound on the length of an arc list in a kept tree
MaxArcs == 4

\* libPinTimingDicList.extend(bundleTimingDicList) for the pins of one bundle
\* or bus that have a list of their own, in both families
ExtendedGroup(groupDic) ==
  IF "pin" \notin DOMAIN groupDic THEN groupDic
  ELSE [groupDic EXCEPT !["pin"] =
          AsTuple([i \in 1..Len(groupDic["pin"]) |->
             [k |-> groupDic["pin"][i].k,
              v |-> [f \in DOMAIN groupDic["pin"][i].v |->
                       IF f \in {"timing", "internal_power"} /\ f \in DOMAIN groupDic
                       THEN groupDic["pin"][i].v[f] \o groupDic[f]
                       ELSE groupDic["pin"][i].v[f]]]])]

\* the tree of one cell after getTimingInfo and getInternalPowerInfo
ExtendedCell(cellPinDic) ==
  AsTuple([s \in 1..Len(cellPinDic) |->
     IF cellPinDic[s].k \in {"bundle", "bus"}
     THEN [k |-> cellPinDic[s].k,
           v |-> AsTuple([g \in 1..Len(cellPinDic[s].v) |->
                    [k |-> cellPinDic[s].v[g].k, v |-> ExtendedGroup(cellPinDic[s].v[g].v)]])]
     ELSE cellPinDic[s]])

\* libDic after the projection of the selected cells
ExtendedTrees(libs, spec) ==
  AsTuple([l \in 1..Len(libs) |->
     [k |-> libs[l].k,
      v |-> [libs[l].v EXCEPT !.parser.pin =
               AsTuple([c \in 1..Len(libs[l].v.parser.pin) |->
                  [k |-> libs[l].v.parser.pin[c].k,
                   v |-> IF HasPath(spec, <<libs[l].k, libs[l].v.parser.pin[c].k>>)
                         THEN ExtendedCell(libs[l].v.parser.pin[c].v)
                         ELSE libs[l].v.parser.pin[c].v]])]]])

\* the longest arc list of a pin below a bundle or bus in the kept trees
ArcListsWithin(libs, n) ==
  \A l \in 1..Len(libs) :
    \A c \in 1..Len(libs[l].v.parser.pin) :
      \A fam \in {"timing", "internal_power"} :
        \A p \in {CellPins(fam, libs[l].v.parser.pin[c].v)[i] :
                    i \in 1..Len(CellPins(fam, libs[l].v.parser.pin[c].v))} :
          Len(p.arcs) <= n

RECURSIVE KeptProjectCells(_, _, _, _)
\* the second loop of cellListBeClicked on the trees the parsers keep
KeptProjectCells(libs, cells, count, acc) ==
  IF cells = <<>> THEN acc
  ELSE LET x == Head(cells)
           Merged(p) ==
             [spec |-> SetPath(acc.spec, <<x.lib, x.cell>>, p.spec),
              leakage_power |-> SetPath(acc.leakage_power, <<x.lib, x.cell>>, p.leakage_power),
              timing |-> SetPath(acc.timing, <<x.lib, x.cell>>, p.timing),
              internal_power |-> SetPath(acc.internal_power, <<x.lib, x.cell>>, p.internal_power)]
       IN Apply(LAMBDA a : KeptProjectCells(libs, Tail(cells), count, a),
                Apply(Merged, ProjectParsed(Get(libs, x.lib).parser, x.cell, count)))

\* loadLibFile(libraryFile) with the parser object in libDic
KeptLoadLibFile(libraryFile) ==
  /\ raised = ""
  /\ raised' = ""
  /\ IF HasKey(libDic, Basename(libraryFile))
     THEN UNCHANGED <<libDic, leakagePowerUnit, timingUnit, internalPowerUnit, cellListTree>>
     ELSE \E myParser \in {Parser(libraryFile)} :
            \E libs \in {Put(libDic, Basename(libraryFile),
                              [libraryFile |-> libraryFile,
                               parser |-> myParser,
                               cellList |-> myParser.cellList])} :
              /\ libDic' = libs
              /\ leakagePowerUnit' =
                   IF "leakage_power_unit" \in DOMAIN myParser.unit /\ leakagePowerUnit = <<>>
                   THEN UnitName(myParser.unit["leakage_power_unit"]) ELSE leakagePowerUnit
              /\ internalPowerUnit' =
                   IF "leakage_power_unit" \in DOMAIN myParser.unit /\ leakagePowerUnit = <<>>
                   THEN UnitName(myParser.unit["leakage_power_unit"]) ELSE internalPowerUnit
              /\ timingUnit' =
                   IF "time_unit" \in DOMAIN myParser.unit /\ timingUnit = <<>>
                   THEN UnitName(myParser.unit["time_unit"]) ELSE timingUnit
              /\ cellListTree' = updateCellListTree(libs, specifiedLibDic)
  /\ UNCHANGED <<hashOrder, specifiedLibDic, specifiedCellCount, leakagePowerTabDic, timingTabDic,
                 internalPowerTabDic, leakagePowerTabMultiEnable, timingTabMultiEnable,
                 internalPowerTabMultiEnable, libLine, cellLine, combo, table, figure>>

\* cellListBeClicked on the trees the parsers keep, after a click on the check
\* box (toggle) or on the text of a cell item
KeptCellListBeClicked(l, c, toggle) ==
  /\ raised = ""
  /\ \E tree \in {IF toggle THEN Toggle(cellListTree, l, c) ELSE cellListTree} :
       \E selected \in {CollectChecked(TreeItems(tree), [spec |-> <<>>, count |-> 0])} :
         /\ selected.count <= MaxChecked
         /\ ArcListsWithin(ExtendedTrees(libDic, selected.spec), MaxArcs)
         /\ cellListTree' = tree
         /\ libDic' = ExtendedTrees(libDic, selected.spec)
         /\ \E r \in {Refreshed(selected.count,
                                KeptProjectCells(libDic, CellSeq(selected.spec), selected.count,
                                                 [spec |-> <<>>, leakage_power |-> <<>>,
                                                  timing |-> <<>>, internal_power |-> <<>>]),
                                Widgets, hashOrder)} :
              /\ specifiedLibDic' = r.d.spec
              /\ specifiedCellCount' = r.d.count
              /\ leakagePowerTabDic' = r.d.tab["leakage_power"]
              /\ timingTabDic' = r.d.tab["timing"]
              /\ internalPowerTabDic' = r.d.tab["internal_power"]
              /\ leakagePowerTabMultiEnable' = r.d.multi["leakage_power"]
              /\ timingTabMultiEnable' = r.d.multi["timing"]
              /\ internalPowerTabMultiEnable' = r.d.multi["internal_power"]
              /\ libLine' = r.libLine
              /\ cellLine' = r.cellLine
              /\ SetWidgets(r.w)
  /\ UNCHANGED <<hashOrder, leakagePowerUnit, timingUnit, internalPowerUnit>>

KeptLoadLib == \E libraryFile \in LibraryFiles : KeptLoadLibFile(libraryFile)

KeptClickCell ==
  \E l \in 1..Len(cellListTree) :
    \E c \in 1..Len(cellListTree[l].cells) :
      \E toggle \in BOOLEAN :
        /\ toggle \/ (l = 1 /\ c = 1)
        /\ KeptCellListBeClicked(l, c, toggle)

KeptNext ==
  \/ KeptLoadLib
  \/ KeptClickCell

KeptSpec == Init /\ [][KeptNext]_vars

\* the entry of a selected cell in specifiedLibDic and in the tab dictionaries
\* is the entry a pass over the file as it was parsed gives, which is what the
\* first pass gave
AsFirstPass(x) ==
  \E first \in {ProjectCellOf(Get(libDic, x.lib).libraryFile, x.cell, specifiedCellCount)} :
    /\ x.v = first.spec
    /\ GetPath(timingTabDic, <<x.lib, x.cell>>) = first.timing
    /\ GetPath(internalPowerTabDic, <<x.lib, x.cell>>) = first.internal_power
    /\ GetPath(leakagePowerTabDic, <<x.lib, x.cell>>) = first.leakage_power

\* C33: whatever passes ran before, the flat lists and the indexes of every
\* selected cell are those of the first pass over the selection: the arcs of a
\* bundle or bus are in the list of a pin once.
C33_PassIdempotent ==
  \A x \in {CellSeq(specifiedLibDic)[i] : i \in 1..Len(CellSeq(specifiedLibDic))} : AsFirstPass(x)

-----------------------------------------------------------------------------
(* What a choice in a combo box leaves as it is *)

\* the combo boxes of a tab in the order of the stages
CascadeOrder(tab) ==
  IF tab = "leakage_power" THEN <<"When", "RelatedPgPin">>
  ELSE <<"Bundle", "Bus", "Pin">> \o DiscStages(tab) \o <<"TableType", "Index1", "Index2">>

\* the combo boxes of the stages before the one of the given combo box
Upstream(tab, stage) ==
  {CascadeOrder(tab)[n] : n \in {m \in 1..Len(CascadeOrder(tab)) :
                                   \E k \in (m + 1)..Len(CascadeOrder(tab)) :
                                     CascadeOrder(tab)[k] = stage}}

\* what the handler of a choice writes: the combo boxes of the earlier stages
\* and the widgets of the other tabs are as they were
UpstreamKept(w, tab, stage) ==
  /\ \A up \in Upstream(tab, stage) : w.combo[tab][up] = combo[tab][up]
  /\ \A other \in ComboTabs \ {tab} :
       /\ w.combo[other] = combo[other]
       /\ w.table[other] = table[other]
       /\ w.figure[other] = figure[other]
  /\ w.table["area"] = table["area"]

\* every choice the user can make in the state does so
ChoiceKeepsUpstream ==
  raised = "" =>
    \A tab \in ComboTabs :
      \A stage \in Combos(tab) :
        \A i \in 1..Len(combo[tab][stage].items) :
          UpstreamKept(updateFrom(Data, [Widgets EXCEPT !.combo[tab][stage].cur = i], tab,
                                  ActivatedStage(tab, stage)), tab, stage)

\* C34: a choice in a combo box of a tab leaves the items and the current item
\* of the combo boxes of the earlier stages as they are, and it leaves the
\* selection, the catalog, the cell tree and the widgets of the other tabs as
\* they are.
C34_ChoiceKeepsUpstream ==
  /\ []ChoiceKeepsUpstream
  /\ [][\/ UNCHANGED <<libDic, cellListTree, specifiedLibDic, specifiedCellCount,
                       leakagePowerTabDic, timingTabDic, internalPowerTabDic>>
        \/ ~ComboBoxActivated]_vars

\* C34 witness: in the timing tab the second related pin is current and, later
\* in the cascade, an index_1 position is current: the position was chosen after
\* the related pin, and the related pin is still the chosen one.
C34_UpstreamChoiceKept ==
  /\ raised = ""
  /\ specifiedCellCount = 1
  /\ combo["timing"]["RelatedPin"].cur = 2
  /\ combo["timing"]["Index1"].cur = 2

-----------------------------------------------------------------------------
(* The index positions on offer and the table *)

\* the widgets with the given items of the two index combo boxes current
WithIndexes(w, fam, i, j) ==
  [w EXCEPT !.combo[fam]["Index1"].cur = i, !.combo[fam]["Index2"].cur = j]

\* C35: with one cell selected, whatever items of the index_1 and index_2 combo
\* boxes are current, the table handler reads no row or column the table of the
\* chosen arc does not have: it raises no IndexError.
C35_OfferedPositionInRange ==
  (specifiedCellCount = 1 /\ raised = "") =>
    \A fam \in FamilyTabs :
      \A i \in 1..Len(combo[fam]["Index1"].items) :
        \A j \in 1..Len(combo[fam]["Index2"].items) :
          updateTabTable(Data, WithIndexes(Widgets, fam, i, j), fam).raised # "IndexError"

-----------------------------------------------------------------------------
(* The table types on offer and the arcs of the chosen discriminators *)

\* the flat arc entries of the chosen pin whose discriminators are the current
\* choices: the entries the table handler reads
ConsultedArcs(fam) == SelectSeq(PinArcs(fam), LAMBDA a : ArcMatches(Widgets, fam, a))

\* C36: with one cell selected, every item of the table type combo box is a
\* table type of every flat arc entry of the chosen pin that has the chosen
\* discriminators, so the table handler finds the chosen table type in each of
\* them.
C36_OfferedTypeInEveryArc ==
  specifiedCellCount = 1 =>
    \A fam \in FamilyTabs :
      \A n \in 1..Len(ConsultedArcs(fam)) :
        \A k \in 1..Len(combo[fam]["TableType"].items) :
          HasKey(Get(ConsultedArcs(fam)[n], "table_type"), Strip(combo[fam]["TableType"].items[k]))

-----------------------------------------------------------------------------
(* The Select button *)

\* the texts of the line edit beside the Select button: letters, digits, '*',
\* '.' and white space
SelectTexts ==
  {<<>>,
   <<"*">>,
   <<"A", "*">>,
   <<" ", "*", "1", " ", " ", "D", " ">>,
   <<"B", " ", "E">>,
   <<"A", ".">>,
   <<"*", "2", " ", "T", "\t", "A", "1">>}

\* the regular expression of a pattern after re.sub('\*', '.*', pattern): one
\* item for each character of the pattern, "star" for '.*', "dot" for '.' and
\* the character itself otherwise
Expression(pattern) ==
  AsTuple([n \in 1..Len(pattern) |->
     IF pattern[n] = "*" THEN [kind |-> "star", c |-> "."]
     ELSE IF pattern[n] = "." THEN [kind |-> "dot", c |-> "."]
     ELSE [kind |-> "char", c |-> pattern[n]]])

RECURSIVE ReMatch(_, _)
\* re.match('^' + expression + '$', s): '.' is any character but a newline, and
\* '$' is the end of s or the place before a newline that ends s
ReMatch(expression, s) ==
  IF expression = <<>> THEN s = <<>> \/ s = <<"\n">>
  ELSE IF Head(expression).kind = "star"
       THEN \/ ReMatch(Tail(expression), s)
            \/ s # <<>> /\ Head(s) # "\n" /\ ReMatch(expression, Tail(s))
  ELSE IF Head(expression).kind = "dot"
       THEN s # <<>> /\ Head(s) # "\n" /\ ReMatch(Tail(expression), Tail(s))
  ELSE s # <<>> /\ Head(s) = Head(expression).c /\ ReMatch(Tail(expression), Tail(s))

\* the tree after the loop of selectCell: a cell item is checked if and only if
\* its text matches one of the patterns
SelectedTree(tree, text) ==
  LET selectedCellList == Split(Strip(text))
  IN AsTuple([l \in 1..Len(tree) |->
       [lib |-> tree[l].lib,
        cells |-> AsTuple([c \in 1..Len(tree[l].cells) |->
                    [name |-> tree[l].cells[c].name,
                     checked |-> \E n \in 1..Len(selectedCellList) :
                                   ReMatch(Expression(selectedCellList[n]),
                                           tree[l].cells[c].name)]])]])

\* the Select button is clicked with the given text in the line edit
SelectCell(text) ==
  /\ raised = ""
  /\ \E tree \in {SelectedTree(cellListTree, text)} :
       /\ cellListTree' = tree
       /\ \E r \in {Clicked(tree, libDic, Widgets, hashOrder)} :
            /\ specifiedLibDic' = r.d.spec
            /\ specifiedCellCount' = r.d.count
            /\ leakagePowerTabDic' = r.d.tab["leakage_power"]
            /\ timingTabDic' = r.d.tab["timing"]
            /\ internalPowerTabDic' = r.d.tab["internal_power"]
            /\ leakagePowerTabMultiEnable' = r.d.multi["leakage_power"]
            /\ timingTabMultiEnable' = r.d.multi["timing"]
            /\ internalPowerTabMultiEnable' = r.d.multi["internal_power"]
            /\ libLine' = r.libLine
            /\ cellLine' = r.cellLine
            /\ SetWidgets(r.w)
  /\ UNCHANGED <<hashOrder, libDic, leakagePowerUnit, timingUnit, internalPowerUnit>>

SelectCells == \E text \in SelectTexts : SelectCell(text)

SelectNext ==
  \/ LoadLib
  \/ ClickCell
  \/ SelectCells

\* the program with the Select button and without the combo boxes
SelectSpec == Init /\ [][SelectNext]_vars

RECURSIVE WildcardMatch(_, _)
\* the whole of s matches the pattern, '*' standing for any substring
WildcardMatch(pattern, s) ==
  IF pattern = <<>> THEN s = <<>>
  ELSE IF Head(pattern) = "*"
       THEN WildcardMatch(Tail(pattern), s) \/ (s # <<>> /\ WildcardMatch(pattern, Tail(s)))
  ELSE s # <<>> /\ Head(s) = Head(pattern) /\ WildcardMatch(Tail(pattern), Tail(s))

\* the cells of the tree whose name matches one of the patterns of the text
Wanted(tree, text) ==
  {<<TreeItems(tree)[i].lib, TreeItems(tree)[i].cell>> :
     i \in {j \in 1..Len(TreeItems(tree)) :
              \E n \in 1..Len(Split(text)) :
                WildcardMatch(Split(text)[n], TreeItems(tree)[j].cell)}}

\* the cells of the selection
SelectedPairs(spec) ==
  {<<CellSeq(spec)[i].lib, CellSeq(spec)[i].cell>> : i \in 1..Len(CellSeq(spec))}

\* the checked cells of the tree
CheckedPairs(tree) ==
  {<<TreeItems(tree)[i].lib, TreeItems(tree)[i].cell>> :
     i \in {j \in 1..Len(TreeItems(tree)) : TreeItems(tree)[j].checked}}

\* C37: after the Select button is clicked, the checked cells and the cells of
\* the selection are the cells whose name matches one of the patterns of the
\* line edit as a whole, '*' standing for any substring, whatever was checked
\* before; without a pattern no cell is selected.
C37_SelectCellSelection ==
  [][\A text \in SelectTexts :
       SelectCell(text) =>
         /\ CheckedPairs(cellListTree') = Wanted(cellListTree, text)
         /\ SelectedPairs(specifiedLibDic') = Wanted(cellListTree, text)]_vars

-----------------------------------------------------------------------------
(* What File > Load leaves as it is *)

\* C38: File > Load, of a new library or of one that has been loaded, leaves
\* the selection, the count of selected cells, the flags of the three tabs and
\* the items and the current item of every combo box as they are, and every
\* cell that was checked is checked in the tree after it.
C38_LoadKeepsSelection ==
  [][\A libraryFile \in LibraryFiles :
       LoadLibFile(libraryFile) =>
         /\ specifiedLibDic' = specifiedLibDic
         /\ specifiedCellCount' = specifiedCellCount
         /\ leakagePowerTabMultiEnable' = leakagePowerTabMultiEnable
         /\ timingTabMultiEnable' = timingTabMultiEnable
         /\ internalPowerTabMultiEnable' = internalPowerTabMultiEnable
         /\ combo' = combo
         /\ CheckedPairs(cellListTree) \subseteq CheckedPairs(cellListTree')
         /\ CheckedPairs(cellListTree') = SelectedPairs(specifiedLibDic)]_vars

\* C38 witness: two libraries are loaded, a cell of the first is the selection
\* and is checked, and a combo box of the timing tab shows a choice of the user.
C38_LoadedBesideChecked ==
  /\ Len(libDic) = 2
  /\ specifiedCellCount = 1
  /\ CheckedPairs(cellListTree) = SelectedPairs(specifiedLibDic)
  /\ \A x \in CheckedPairs(cellListTree) : x[1] = libDic[1].k
  /\ combo["timing"]["RelatedPin"].cur = 2

-----------------------------------------------------------------------------
(* The sorted cell list and the cell list *)

\* the cell lists in which a name may stand more than once
RepeatInputs == UNION {[1..n -> SortNames] : n \in 1..MaxCells}

RepeatInit == SortInitWith(RepeatInputs)

\* updateCellListTree after loadLibFile has stored a cell list of any names
RepeatSpec == RepeatInit /\ [][SortNext]_vars

\* the number of times the name stands in the list
Occurrences(list, name) == Cardinality({i \in 1..Len(list) : list[i] = name})

\* the sorted list holds the names of the cell list, each as many times
SameNames ==
  Sorted =>
    /\ Len(SortedCellList) = Len(OrigCellList)
    /\ \A name \in SortNames :
         Occurrences(SortedCellList, name) = Occurrences(OrigCellList, name)

\* C39: the list sortCellWithSize returns holds every name as many times as the
\* cell list it was called on, and no other name; the cell list of the library
\* is the same list after the call.
C39_SortPermutes == []SameNames /\ [][libDic' = libDic]_vars

\* C39 witness: the sorted list is in another order than the cell list, a name
\* stands in it twice, and a series of one name was moved to the other names.
C39_ReorderedWithRepeat ==
  /\ Sorted
  /\ SortedCellList # OrigCellList
  /\ \E name \in SortNames : Occurrences(OrigCellList, name) = 2
  /\ \E i \in 1..Len(OrigCellList) :
       /\ SeriesMatches(OrigCellList[i])
       /\ \A j \in 1..Len(OrigCellList) :
            SeriesMatches(OrigCellList[j]) => SeriesKey(OrigCellList[j]) # SeriesKey(OrigCellList[i]) \/ j = i

=============================================================================
